---- MODULE Spec2Model ----
(***************************************************************************)
(* A model of the chat application: the Chat view (pending uploads, send,  *)
(* typing indicator, subscriptions), and the REST server's chat and        *)
(* message operations over the shared document store.                      *)
(*                                                                         *)
(* Each subsystem has its own specification over the same variables:       *)
(*   SpecUpload  the Chat view's pending attachments and handleSendMessage *)
(*   SpecView    the Chat view's chatId effects (getDoc, onSnapshot)       *)
(*   SpecTyping  the Chat view's own typing indicator                      *)
(*   SpecUnread  the server's sendMessage / view operations on one chat    *)
(*   SpecChats   chat creation, add-members and leave                      *)
(***************************************************************************)
EXTENDS Integers, Sequences, FiniteSets, Bags, TLC

\* ------------------------------------------------------------------ bounds
MaxFiles == 2
MaxSends == 1
MaxInputs == 3
MaxTime == 3
MaxChats == 2
MaxTypingReqs == 2
MaxReqs == 2
MaxMessages == 4
MaxMessageReqs == 1
MaxClicks == 1
MaxHeader == 3
MaxFolderChats == 2

\* ------------------------------------------------------- program constants
\* The clock counts ticks of 5000 ms.
\* setTimeout(..., 5000) of handleMessageChange: one tick
TypingIdleTicks == 1
\* (new Date().getTime() - timestamp.getTime()) < 10000: two ticks
StaleTicks == 2
\* 5 * 60 * 1000 ms and one calendar day, in units of 30 seconds
GroupGapUnits == 10
DayUnits == 2880

\* ------------------------------------------------------------- Chat view
VARIABLES
    fileUploads,     \* useState<FileUpload[]>: the pending attachments
    updatedUploads,  \* handleFileChange's local array, shared by its promises
    uploadBase,      \* fileUploads.length as captured by that handleFileChange
    uploadPending,   \* indexes of newUploads whose uploadFile is in flight
    uploadLoading,   \* useState(false)
    outcome,         \* per selected file: how its uploadFile promise settled
    nextFile,        \* the next file the user selects
    fileChat,        \* per file: the chatId handleFileChange gave uploadFile
    removed,         \* history: files the user removed with removeFileUpload
    messageText,     \* useState('')
    isTyping,        \* useState(false)
    typingWrites,    \* the client's queued writes to chats/{chatId}/typing
    sending,         \* handleSendMessage invocations awaiting a write
    chatMessages,    \* documents of chats/{chat}/messages, in creation order
    chatDoc,         \* the chat document's lastMessage preview
    sendCount,       \* handleSendMessage invocations so far
    typingPhase,     \* history: the user's updateTypingStatus calls so far
    typingDocs,      \* documents of chats/{chat}/typing
    nextAuto,        \* the next auto-generated document id
    typingTimeout,   \* typingTimeoutRef: the pending inactivity timer
    inputCount,      \* input events of the Chat view handled so far
    now,             \* the clock, in ticks of 5000 ms
    chatId,          \* useParams().chatId
    chat,            \* useState<any>(null): the loaded chat document
    messages,        \* useState<ChatMessage[]>([])
    typingUsers,     \* useState<TypingIndicator[]>([])
    loading,         \* useState(true)
    error,           \* useState('')
    getDocPending,   \* chats whose fetchChat getDoc is in flight
    msgSnapDue,      \* the messages listener has a snapshot to deliver
    typingSnapDue,   \* the typing listener has a snapshot to deliver
    typingReqs,      \* typing requests the server has handled
    messageDocs,     \* the documents of the top-level collection 'messages'
    folderChats,     \* Folders: the chats state the chats listener set
    activeFolder,    \* Folders: the selected folder, '' for none
    searchTerm,      \* Folders: the text of the search box
    filteredChats,   \* Folders: the list the last render computed
    chats,           \* the chats collection: one document per chat id
    reqs,            \* the bag of the server's requests in flight, each at an await
    reqCount,        \* requests the server has accepted so far
    lastResponse,    \* the response the server sent last
    chatsCreated,    \* chat documents added so far; the next id is one more
    viewedUpTo,      \* history: per chat and user, the number of message
                     \* documents that existed at the user's last view
    groupedMessages, \* the groups the last render computed from messages
    pinnedMessages,  \* the pinned subset the last render or request computed
    rendered,        \* the Chat view has rendered the current messages
    alerts           \* the texts the Chat view has shown with alert()

folderVars == <<folderChats, activeFolder, searchTerm, filteredChats>>
uploadVars == <<fileUploads, updatedUploads, uploadBase, uploadPending,
                uploadLoading, outcome, nextFile, fileChat, removed>>
sendVars == <<messageText, sending, chatMessages, chatDoc, sendCount, alerts>>
typingVars == <<isTyping, typingWrites, typingPhase>>
typingStoreVars == <<typingDocs, nextAuto, typingTimeout, inputCount>>

viewVars == <<chat, messages, typingUsers, loading, error, getDocPending,
              msgSnapDue, typingSnapDue>>
\* what the typing, upload and send handlers of the Chat view never touch
renderVars == <<groupedMessages, pinnedMessages, rendered>>
serverVars == <<reqs, reqCount, lastResponse, viewedUpTo, chatsCreated>>
others == <<viewVars, typingReqs, messageDocs, folderVars, chats, serverVars, renderVars>>
\* what the pending-attachment and send handlers never touch
nonUpload == <<typingStoreVars, now, chatId, others>>

vars == <<uploadVars, sendVars, typingVars, nonUpload>>

\* the signed-in user of the Chat view, and the users of the application
Me == 1
Users == {1, 2, 3}
ChatIds == 1..MaxChats

FileIds == 1..MaxFiles

\* A chat document the signed-in user is a member of, one they are not a
\* member of, and the slot of a chat id with no document.
\* unreadCounts is a map from user ids to counters (createChat stores {}),
\* lastMessageId the index of a message document (0: none).
MemberChat == [exists |-> TRUE, members |-> <<1, 2, 3>>, isGroup |-> TRUE,
               createdBy |-> 2, unreadCounts |-> <<>>, lastMessageId |-> 0,
     lastMessage |-> "", lastMessageTime |-> 0, title |-> "",
     folderName |-> ""]
ForeignChat == [exists |-> TRUE, members |-> <<2, 3>>, isGroup |-> FALSE,
                createdBy |-> 2, unreadCounts |-> <<>>, lastMessageId |-> 0,
     lastMessage |-> "", lastMessageTime |-> 0, title |-> "",
     folderName |-> ""]
NoChat == [exists |-> FALSE, members |-> <<>>, isGroup |-> FALSE,
           createdBy |-> 0, unreadCounts |-> <<>>, lastMessageId |-> 0,
     lastMessage |-> "", lastMessageTime |-> 0, title |-> "",
     folderName |-> ""]

NoResponse == [op |-> "none", uid |-> 0, chat |-> 0, status |-> 0, unread |-> <<>>,
               pinnedMessages |-> <<>>]

\* Array.prototype.includes
Includes(seq, x) == \E k \in 1..Len(seq) : seq[k] = x

\* e.target.value of the textarea: empty, whitespace only, or visible text
Texts == {"", " ", "hi", "hey"}

\* String.prototype.trim
Trim(s) == IF s = " " THEN "" ELSE s

\* The entry handleFileChange pushes for a selected file: progress 0 and
\* empty url / id (0 stands for the empty string '').
NewUpload(f) == [file |-> f, progress |-> 0, url |-> 0, id |-> 0]

\* What uploadFile resolves with for file f: a remote id and a view URL.
UploadResult(f) == [id |-> f, url |-> f]

\* ---------------------------------------------------------- handleFileChange
\* The user selects n files (the file input is disabled while uploadLoading).
HandleFileChange(n) ==
    /\ ~uploadLoading
    /\ n >= 1
    /\ nextFile + n - 1 <= MaxFiles
    /\ LET newUploads == [i \in 1..n |-> NewUpload(nextFile + i - 1)]
       IN /\ fileUploads' = fileUploads \o newUploads
          /\ updatedUploads' = fileUploads \o newUploads
          /\ uploadBase' = Len(fileUploads)
          /\ uploadPending' = 1..n
          /\ outcome' = [f \in FileIds |->
                           IF f \in nextFile..(nextFile + n - 1)
                           THEN "inflight" ELSE outcome[f]]
    /\ uploadLoading' = TRUE
    /\ nextFile' = nextFile + n
    /\ fileChat' = [f \in FileIds |->
                       IF f \in nextFile..(nextFile + n - 1)
                       THEN chatId ELSE fileChat[f]]
    /\ UNCHANGED <<removed, sendVars, typingVars, nonUpload>>

\* After the last promise of the batch settles, Promise.all resolves and the
\* finally block runs setUploadLoading(false).
SettleBatch(i) ==
    /\ uploadPending' = uploadPending \ {i}
    /\ uploadLoading' = (uploadPending \ {i} # {})

\* uploadFile resolved for newUploads[i]
UploadResolved(i) ==
    /\ i \in uploadPending
    /\ LET totalIndex == uploadBase + i
           f == updatedUploads[totalIndex].file
           result == UploadResult(f)
       IN /\ updatedUploads' = [updatedUploads EXCEPT ![totalIndex] =
                 [@ EXCEPT !.url = result.url, !.id = result.id, !.progress = 100]]
          /\ fileUploads' = updatedUploads'
          /\ outcome' = [outcome EXCEPT ![f] = "ok"]
    /\ SettleBatch(i)
    /\ UNCHANGED <<uploadBase, nextFile, fileChat, removed, sendVars, typingVars, nonUpload>>

UploadRejectedMarksAll(i) ==
    /\ i \in uploadPending
    /\ LET totalIndex == uploadBase + i
           f == updatedUploads[totalIndex].file
       IN /\ updatedUploads' = [k \in 1..Len(updatedUploads) |->
                 [updatedUploads[k] EXCEPT !.progress = -1]]
          /\ fileUploads' = updatedUploads'
          /\ outcome' = [outcome EXCEPT ![f] = "failed"]
    /\ SettleBatch(i)
    /\ UNCHANGED <<uploadBase, nextFile, fileChat, removed, sendVars, typingVars, nonUpload>>

\* uploadFile rejected for newUploads[i]
UploadRejected(i) ==
    /\ i \in uploadPending
    /\ LET totalIndex == uploadBase + i
           f == updatedUploads[totalIndex].file
       IN /\ updatedUploads' = [updatedUploads EXCEPT ![totalIndex] =
                 [@ EXCEPT !.progress = -1]]
          /\ fileUploads' = updatedUploads'
          /\ outcome' = [outcome EXCEPT ![f] = "failed"]
    /\ SettleBatch(i)
    /\ UNCHANGED <<uploadBase, nextFile, fileChat, removed, sendVars, typingVars, nonUpload>>

\* ---------------------------------------------------------- removeFileUpload
\* Array.prototype.splice(index, 1) on a copy (index is 1-based here)
Splice(s, index) == [k \in 1..(Len(s) - 1) |-> IF k < index THEN s[k] ELSE s[k + 1]]

RemoveFileUpload(index) ==
    /\ index \in 1..Len(fileUploads)
    /\ fileUploads' = Splice(fileUploads, index)
    /\ removed' = removed \cup {fileUploads[index].file}
    /\ UNCHANGED <<updatedUploads, uploadBase, uploadPending, uploadLoading,
                   outcome, nextFile, fileChat, sendVars, typingVars, nonUpload>>

\* --------------------------------------------------------- handleSendMessage
\* Mutant of SentFiles: the filter on url and id is dropped.
SentFilesUnfiltered(uploads) ==
    [k \in 1..Len(uploads) |->
        [id |-> uploads[k].id, url |-> uploads[k].url, name |-> uploads[k].file]]

\* "Only include successfully uploaded files"
SentFiles(uploads) ==
    LET ok == SelectSeq(uploads, LAMBDA u : u.url # 0 /\ u.id # 0)
    IN [k \in 1..Len(ok) |-> [id |-> ok[k].id, url |-> ok[k].url, name |-> ok[k].file]]

\* updateTypingStatus(false): deleteDoc(typingRef) is queued
UpdateTypingStatusFalse ==
    /\ typingWrites' = Append(typingWrites, "delete")
    /\ typingPhase' = IF typingPhase = "typing" THEN "stopped" ELSE typingPhase

\* The synchronous part, up to the first await (the send button and the
\* textarea are disabled while uploadLoading).
HandleSendMessage ==
    /\ ~uploadLoading
    /\ ~(Trim(messageText) = "" /\ Len(fileUploads) = 0)
    /\ sendCount < MaxSends
    /\ sendCount' = sendCount + 1
    /\ isTyping' = FALSE
    /\ UpdateTypingStatusFalse
    /\ sending' = Append(sending, [pc |-> "addDoc", chat |-> chatId,
                                   text |-> Trim(messageText),
                                   files |-> SentFiles(fileUploads)])
    /\ UNCHANGED <<uploadVars, messageText, chatMessages, chatDoc, alerts, nonUpload>>

\* A message document of chats/{chat}/messages. Its id is its position in
\* chatMessages and its timestamp its creation order; a deleted document
\* keeps its position with deleted set.
NewMessage(c, id, senderId, text, files) ==
    [chat |-> c, id |-> id, senderId |-> senderId, text |-> text, files |-> files,
     timestamp |-> id, isEdited |-> FALSE, isPinned |-> FALSE, deleted |-> FALSE]

\* `${files.length} file${files.length > 1 ? 's' : ''}` as the preview
LastMessagePreview(text, files) ==
    IF text # "" THEN <<"text", text>> ELSE <<"files", Len(files)>>

\* await addDoc(collection(db, 'chats', chatId, 'messages'), ...) succeeded
SendAddDocOk(k) ==
    /\ k \in 1..Len(sending)
    /\ sending[k].pc = "addDoc"
    /\ chatMessages' = Append(chatMessages,
                              NewMessage(sending[k].chat, Len(chatMessages) + 1, Me,
                                         sending[k].text, sending[k].files))
    /\ sending' = [sending EXCEPT ![k].pc = "updateDoc"]
    /\ UNCHANGED <<uploadVars, messageText, chatDoc, sendCount, alerts, typingVars, nonUpload>>

\* await updateDoc(doc(db, 'chats', chatId), ...) succeeded, then "Reset state"
SendUpdateDocOk(k) ==
    /\ k \in 1..Len(sending)
    /\ sending[k].pc = "updateDoc"
    /\ chatDoc' = LastMessagePreview(sending[k].text, sending[k].files)
    /\ sending' = Splice(sending, k)
    /\ messageText' = ""
    /\ fileUploads' = <<>>
    /\ UNCHANGED <<updatedUploads, uploadBase, uploadPending, uploadLoading,
                   outcome, nextFile, fileChat, removed, chatMessages, sendCount, alerts, typingVars, nonUpload>>

SendWriteFailedDiscards(k) ==
    /\ k \in 1..Len(sending)
    /\ sending' = Splice(sending, k)
    /\ alerts' = Append(alerts, "Failed to send message. Please try again.")
    /\ messageText' = ""
    /\ fileUploads' = <<>>
    /\ UNCHANGED <<updatedUploads, uploadBase, uploadPending, uploadLoading,
                   outcome, nextFile, fileChat, removed, chatMessages, chatDoc, sendCount,
                   typingVars, nonUpload>>

\* either write rejected: the catch block logs and alerts
SendWriteFailed(k) ==
    /\ k \in 1..Len(sending)
    /\ sending' = Splice(sending, k)
    /\ alerts' = Append(alerts, "Failed to send message. Please try again.")
    /\ UNCHANGED <<uploadVars, messageText, chatMessages, chatDoc, sendCount, typingVars, nonUpload>>

\* -------------------------------------------------------- typing indicator
\* doc(db, 'chats', chatId, 'typing', uid) and an addDoc-generated id
DocKeyUid(u) == [uid |-> u, auto |-> 0]
DocKeyAuto(n) == [uid |-> 0, auto |-> n]

\* typingRef of updateTypingStatus
TypingRefExists ==
    \E d \in typingDocs : d.chat = chatId /\ d.key = DocKeyUid(Me)

\* updateTypingStatus(true): updateDoc(typingRef, ...) is queued
UpdateTypingStatusTrue ==
    /\ typingWrites' = Append(typingWrites, "update")
    /\ typingPhase' = "typing"

\* onChange of the textarea (disabled while uploadLoading)
HandleMessageChange(value) ==
    /\ ~uploadLoading
    /\ value # messageText
    /\ inputCount < MaxInputs
    /\ inputCount' = inputCount + 1
    /\ messageText' = value
    /\ IF ~isTyping /\ Trim(value) # ""
       THEN isTyping' = TRUE /\ UpdateTypingStatusTrue
       ELSE IF isTyping /\ Trim(value) = ""
            THEN isTyping' = FALSE /\ UpdateTypingStatusFalse
            ELSE UNCHANGED typingVars
    \* clearTimeout, then setTimeout with this render's isTyping in its closure
    /\ typingTimeout' = <<[deadline |-> now + TypingIdleTicks, isTyping |-> isTyping]>>
    /\ UNCHANGED <<uploadVars, sending, chatMessages, chatDoc, sendCount, alerts,
                   typingDocs, nextAuto, now, chatId, others>>

\* the inactivity timer's callback
TypingTimeoutFires ==
    /\ typingTimeout # <<>>
    /\ now >= typingTimeout[1].deadline
    /\ IF typingTimeout[1].isTyping
       THEN isTyping' = FALSE /\ UpdateTypingStatusFalse
       ELSE UNCHANGED typingVars
    /\ typingTimeout' = <<>>
    /\ UNCHANGED <<uploadVars, sendVars, typingDocs, nextAuto, inputCount, now, chatId, others>>

\* a tick passes; a due timer fires first
Tick ==
    /\ now < MaxTime
    /\ IF typingTimeout = <<>> THEN TRUE ELSE now < typingTimeout[1].deadline
    /\ now' = now + 1
    /\ UNCHANGED <<uploadVars, sendVars, typingVars, typingStoreVars, chatId, others>>

\* the store applies updateDoc(typingRef): the document exists
TypingUpdateApplied ==
    /\ typingWrites # <<>> /\ Head(typingWrites) = "update"
    /\ TypingRefExists
    /\ typingDocs' = {d \in typingDocs : ~(d.chat = chatId /\ d.key = DocKeyUid(Me))}
                     \cup {[chat |-> chatId, key |-> DocKeyUid(Me),
                            userId |-> Me, timestamp |-> now]}
    /\ typingWrites' = Tail(typingWrites)
    /\ UNCHANGED <<uploadVars, sendVars, isTyping, typingPhase, nextAuto,
                   typingTimeout, inputCount, now, chatId, others>>

\* updateDoc(typingRef) rejects (no such document): the catch calls addDoc
TypingUpdateRejected ==
    /\ typingWrites # <<>> /\ Head(typingWrites) = "update"
    /\ ~TypingRefExists
    /\ typingWrites' = Append(Tail(typingWrites), "add")
    /\ UNCHANGED <<uploadVars, sendVars, isTyping, typingPhase, typingStoreVars,
                   now, chatId, others>>

\* the store applies addDoc(collection(db, 'chats', chatId, 'typing'), ...)
TypingAddApplied ==
    /\ typingWrites # <<>> /\ Head(typingWrites) = "add"
    /\ typingDocs' = typingDocs \cup {[chat |-> chatId, key |-> DocKeyAuto(nextAuto),
                                       userId |-> Me, timestamp |-> now]}
    /\ nextAuto' = nextAuto + 1
    /\ typingWrites' = Tail(typingWrites)
    /\ UNCHANGED <<uploadVars, sendVars, isTyping, typingPhase, typingTimeout,
                   inputCount, now, chatId, others>>

\* the store applies deleteDoc(typingRef)
TypingDeleteApplied ==
    /\ typingWrites # <<>> /\ Head(typingWrites) = "delete"
    /\ typingDocs' = {d \in typingDocs : ~(d.chat = chatId /\ d.key = DocKeyUid(Me))}
    /\ typingWrites' = Tail(typingWrites)
    /\ UNCHANGED <<uploadVars, sendVars, isTyping, typingPhase, nextAuto,
                   typingTimeout, inputCount, now, chatId, others>>

\* ------------------------------------------------------ chatId effects
\* What every handler of this section leaves alone.
nonView == <<uploadVars, sendVars, typingVars, typingStoreVars>>

\* The route's chatId changes: the cleanups of the two listener effects
\* unsubscribe, then the three effects run for the new chatId (fetchChat has
\* no cleanup). No state of the component is reset.
ChangeChat(c) ==
    /\ c \in ChatIds
    /\ c # chatId
    /\ chatId' = c
    /\ getDocPending' = getDocPending \cup {c}
    /\ msgSnapDue' = TRUE
    /\ typingSnapDue' = TRUE
    /\ UNCHANGED <<nonView, now, chat, messages, typingUsers, loading, error,
                   typingReqs, messageDocs, folderVars, chats, serverVars, renderVars>>

\* fetchChat: getDoc resolved, the document does not exist
FetchChatNotFound(c) ==
    /\ c \in getDocPending
    /\ ~chats[c].exists
    /\ getDocPending' = getDocPending \ {c}
    /\ error' = "Chat not found"
    /\ loading' = FALSE
    /\ UNCHANGED <<nonView, now, chatId, chat, messages, typingUsers,
                   msgSnapDue, typingSnapDue, typingReqs, messageDocs, folderVars, chats, serverVars, renderVars>>

\* fetchChat: the current user is not in chatData.members
FetchChatNotMember(c) ==
    /\ c \in getDocPending
    /\ chats[c].exists
    /\ ~Includes(chats[c].members, Me)
    /\ getDocPending' = getDocPending \ {c}
    /\ error' = "You are not a member of this chat"
    /\ loading' = FALSE
    /\ UNCHANGED <<nonView, now, chatId, chat, messages, typingUsers,
                   msgSnapDue, typingSnapDue, typingReqs, messageDocs, folderVars, chats, serverVars, renderVars>>

\* fetchChat: setChat(chatData); setLoading(false)
FetchChatLoaded(c) ==
    /\ c \in getDocPending
    /\ chats[c].exists
    /\ Includes(chats[c].members, Me)
    /\ getDocPending' = getDocPending \ {c}
    /\ chat' = <<[id |-> c, members |-> chats[c].members, isGroup |-> chats[c].isGroup]>>
    /\ loading' = FALSE
    /\ UNCHANGED <<nonView, now, chatId, messages, typingUsers, error,
                   msgSnapDue, typingSnapDue, typingReqs, messageDocs, folderVars, chats, serverVars, renderVars>>

\* fetchChat: getDoc rejected
FetchChatFailed(c) ==
    /\ c \in getDocPending
    /\ getDocPending' = getDocPending \ {c}
    /\ error' = "Failed to load chat"
    /\ loading' = FALSE
    /\ UNCHANGED <<nonView, now, chatId, chat, messages, typingUsers,
                   msgSnapDue, typingSnapDue, typingReqs, messageDocs, folderVars, chats, serverVars, renderVars>>

\* the onSnapshot callback of the messages listener of the current chatId
MessagesSnapshot ==
    /\ msgSnapDue
    /\ messages' = SelectSeq(chatMessages, LAMBDA m : m.chat = chatId /\ ~m.deleted)
    /\ msgSnapDue' = FALSE
    /\ UNCHANGED <<nonView, now, chatId, chat, typingUsers, loading, error,
                   getDocPending, typingSnapDue, typingReqs, messageDocs, folderVars, chats, serverVars, renderVars>>

\* The typing listener's filter: where('userId', '!=', uid), and
\* "Only show typing indicators that are recent".
RecentTyping(docs, c, t) ==
    {d \in docs : d.chat = c /\ d.userId # Me /\ t - d.timestamp < StaleTicks}

\* the onSnapshot callback of the typing listener of the current chatId
TypingSnapshot ==
    /\ typingSnapDue
    /\ typingUsers' = RecentTyping(typingDocs, chatId, now)
    /\ typingSnapDue' = FALSE
    /\ UNCHANGED <<nonView, now, chatId, chat, messages, loading, error,
                   getDocPending, msgSnapDue, typingReqs, messageDocs, folderVars, chats, serverVars, renderVars>>

\* The server's updateTypingStatus for member u of chat c: set() or delete()
\* of typing/{u}; the listener of the current chat gets a new snapshot when
\* its query result changes.
ServerUpdateTypingStatus(c, u, typing) ==
    /\ typingReqs < MaxTypingReqs
    /\ typingReqs' = typingReqs + 1
    /\ chats[c].exists
    /\ Includes(chats[c].members, u)
    /\ LET rest == {d \in typingDocs : ~(d.chat = c /\ d.key = DocKeyUid(u))}
       IN typingDocs' = IF typing
                        THEN rest \cup {[chat |-> c, key |-> DocKeyUid(u),
                                         userId |-> u, timestamp |-> now]}
                        ELSE rest
    /\ typingSnapDue' = (typingSnapDue \/ (c = chatId /\ u # Me))
    /\ UNCHANGED <<uploadVars, sendVars, typingVars, nextAuto, typingTimeout,
                   inputCount, now, chatId, chat, messages, typingUsers, loading,
                   error, getDocPending, msgSnapDue, chats, serverVars, renderVars,
                   messageDocs, folderVars>>

\* ------------------------------------------------------------- SpecUpload
InitUpload ==
    /\ fileUploads = <<>>
    /\ updatedUploads = <<>>
    /\ uploadBase = 0
    /\ uploadPending = {}
    /\ uploadLoading = FALSE
    /\ outcome = [f \in FileIds |-> "none"]
    /\ nextFile = 1
    /\ fileChat = [f \in FileIds |-> 0]
    /\ removed = {}
    /\ messageText \in Texts
    /\ isTyping = (Trim(messageText) # "")
    /\ typingWrites = <<>>
    /\ sending = <<>>
    /\ chatMessages = <<>>
    /\ chatDoc = <<"none", 0>>
    /\ sendCount = 0
    /\ typingPhase = "none"
    /\ typingDocs = {}
    /\ nextAuto = 1
    /\ typingTimeout = <<>>
    /\ inputCount = 0
    /\ now = 0
    /\ chatId = 1
    /\ chat = <<>>
    /\ messages = <<>>
    /\ typingUsers = {}
    /\ loading = TRUE
    /\ error = ""
    /\ getDocPending = {}
    /\ msgSnapDue = FALSE
    /\ typingSnapDue = FALSE
    /\ typingReqs = 0
    /\ messageDocs = <<>>
    /\ folderChats = <<>>
    /\ activeFolder = ""
    /\ searchTerm = <<>>
    /\ filteredChats = <<>>
    /\ groupedMessages = <<>>
    /\ pinnedMessages = <<>>
    /\ rendered = FALSE
    /\ alerts = <<>>
    /\ chats = [c \in ChatIds |-> MemberChat]
    /\ chatsCreated = 0
    /\ reqs = EmptyBag
    /\ reqCount = 0
    /\ lastResponse = NoResponse
    /\ viewedUpTo = [c \in ChatIds |-> [u \in Users |-> 0]]

NextUpload ==
    \/ \E n \in 1..MaxFiles : HandleFileChange(n)
    \/ \E i \in 1..MaxFiles : UploadResolved(i)
    \/ \E i \in 1..MaxFiles : UploadRejected(i)
    \/ \E index \in 1..MaxFiles : RemoveFileUpload(index)
    \/ HandleSendMessage
    \/ \E k \in 1..MaxSends : SendAddDocOk(k)
    \/ \E k \in 1..MaxSends : SendUpdateDocOk(k)
    \/ \E k \in 1..MaxSends : SendWriteFailed(k)

SpecUpload == InitUpload /\ [][NextUpload]_vars

\* ------------------------------------------------------------- SpecAttach
\* The pending attachments and the send handler of a Chat view whose route
\* parameter changes: <Route path="/chat/:chatId" element={<Chat />} /> keeps
\* the component mounted.
NextAttach ==
    \/ \E n \in 1..MaxFiles : HandleFileChange(n)
    \/ \E i \in 1..MaxFiles : UploadResolved(i)
    \/ \E i \in 1..MaxFiles : UploadRejected(i)
    \/ \E index \in 1..MaxFiles : RemoveFileUpload(index)
    \/ HandleSendMessage
    \/ \E k \in 1..MaxSends : SendAddDocOk(k)
    \/ \E k \in 1..MaxSends : SendUpdateDocOk(k)
    \/ \E k \in 1..MaxSends : SendWriteFailed(k)
    \/ \E c \in ChatIds : ChangeChat(c)

SpecAttach == InitUpload /\ [][NextAttach]_vars

\* ------------------------------------------------------------- SpecTyping
\* The user's document typing/{uid} may exist already: the server's
\* updateTypingStatus creates it with set().
InitTyping ==
    /\ fileUploads = <<>>
    /\ updatedUploads = <<>>
    /\ uploadBase = 0
    /\ uploadPending = {}
    /\ uploadLoading = FALSE
    /\ outcome = [f \in FileIds |-> "none"]
    /\ nextFile = 1
    /\ fileChat = [f \in FileIds |-> 0]
    /\ removed = {}
    /\ messageText = ""
    /\ isTyping = FALSE
    /\ typingWrites = <<>>
    /\ sending = <<>>
    /\ chatMessages = <<>>
    /\ chatDoc = <<"none", 0>>
    /\ sendCount = 0
    /\ typingPhase = "none"
    /\ chatId = 1
    /\ typingDocs \in {{}, {[chat |-> 1, key |-> DocKeyUid(Me),
                            userId |-> Me, timestamp |-> 0]}}
    /\ nextAuto = 1
    /\ typingTimeout = <<>>
    /\ inputCount = 0
    /\ now = 0
    /\ chat = <<>>
    /\ messages = <<>>
    /\ typingUsers = {}
    /\ loading = TRUE
    /\ error = ""
    /\ getDocPending = {}
    /\ msgSnapDue = FALSE
    /\ typingSnapDue = FALSE
    /\ typingReqs = 0
    /\ messageDocs = <<>>
    /\ folderChats = <<>>
    /\ activeFolder = ""
    /\ searchTerm = <<>>
    /\ filteredChats = <<>>
    /\ groupedMessages = <<>>
    /\ pinnedMessages = <<>>
    /\ rendered = FALSE
    /\ alerts = <<>>
    /\ chats = [c \in ChatIds |-> MemberChat]
    /\ chatsCreated = 0
    /\ reqs = EmptyBag
    /\ reqCount = 0
    /\ lastResponse = NoResponse
    /\ viewedUpTo = [c \in ChatIds |-> [u \in Users |-> 0]]

NextTyping ==
    \/ \E value \in Texts : HandleMessageChange(value)
    \/ TypingTimeoutFires
    \/ Tick
    \/ TypingUpdateApplied
    \/ TypingUpdateRejected
    \/ TypingAddApplied
    \/ TypingDeleteApplied
    \/ HandleSendMessage

SpecTyping == InitTyping /\ [][NextTyping]_vars

\* --------------------------------------------------------------- SpecView
\* The Chat view is mounted on chat 1, a chat of the user: its effects have
\* run once. Every other chat id holds a chat of the user, a chat of other
\* users, or no document, and every chat has one message.
InitView ==
    /\ fileUploads = <<>>
    /\ updatedUploads = <<>>
    /\ uploadBase = 0
    /\ uploadPending = {}
    /\ uploadLoading = FALSE
    /\ outcome = [f \in FileIds |-> "none"]
    /\ nextFile = 1
    /\ fileChat = [f \in FileIds |-> 0]
    /\ removed = {}
    /\ messageText = ""
    /\ isTyping = FALSE
    /\ typingWrites = <<>>
    /\ sending = <<>>
    /\ chatMessages = [c \in ChatIds |-> NewMessage(c, c, 2, "hi", <<>>)]
    /\ chatDoc = <<"none", 0>>
    /\ sendCount = 0
    /\ typingPhase = "none"
    /\ typingDocs = {}
    /\ nextAuto = 1
    /\ typingTimeout = <<>>
    /\ inputCount = 0
    /\ now = 0
    /\ chatId = 1
    /\ chat = <<>>
    /\ messages = <<>>
    /\ typingUsers = {}
    /\ loading = TRUE
    /\ error = ""
    /\ getDocPending = {1}
    /\ msgSnapDue = TRUE
    /\ typingSnapDue = TRUE
    /\ typingReqs = 0
    /\ messageDocs = <<>>
    /\ folderChats = <<>>
    /\ activeFolder = ""
    /\ searchTerm = <<>>
    /\ filteredChats = <<>>
    /\ groupedMessages = <<>>
    /\ pinnedMessages = <<>>
    /\ rendered = FALSE
    /\ alerts = <<>>
    /\ chats \in [ChatIds -> {MemberChat, ForeignChat, NoChat}]
    /\ chats[1] = MemberChat
    /\ chatsCreated = 0
    /\ reqs = EmptyBag
    /\ reqCount = 0
    /\ lastResponse = NoResponse
    /\ viewedUpTo = [c \in ChatIds |-> [u \in Users |-> 0]]

NextView ==
    \/ \E c \in ChatIds : ChangeChat(c)
    \/ \E c \in ChatIds : FetchChatNotFound(c)
    \/ \E c \in ChatIds : FetchChatNotMember(c)
    \/ \E c \in ChatIds : FetchChatLoaded(c)
    \/ \E c \in ChatIds : FetchChatFailed(c)
    \/ MessagesSnapshot
    \/ TypingSnapshot
    \/ \E c \in ChatIds, u \in Users, typing \in BOOLEAN :
           ServerUpdateTypingStatus(c, u, typing)
    \/ Tick

SpecView == InitView /\ [][NextView]_vars

\* ------------------------------------------------- server: unread counters
\* (src/server/src/controllers/auth.ts, src/server/src/controllers/chats.ts)
\* A request is accepted at its first await, the read of the chat document;
\* the snapshot it read travels with it to the later awaits.

clientVars == <<uploadVars, typingVars, messageText, sending, chatDoc, sendCount, alerts,
                nextAuto, typingTimeout, inputCount, now, chatId, viewVars, typingReqs, messageDocs, folderVars,
                renderVars>>

Range(seq) == {seq[k] : k \in 1..Len(seq)}

\* chatData.unreadCounts?.[uid] || 0
UnreadOrZero(unreadCounts, uid) ==
    IF uid \in DOMAIN unreadCounts THEN unreadCounts[uid] ELSE 0

\* update({ [`unreadCounts.${uid}`]: value }) on the stored map
SetUnread(unreadCounts, uid, value) ==
    [x \in DOMAIN unreadCounts \cup {uid} |-> IF x = uid THEN value ELSE unreadCounts[x]]

ResetUnreadDecrement(unreadCounts, uid) ==
    SetUnread(unreadCounts, uid, UnreadOrZero(unreadCounts, uid) - 1)

\* updateData = { [`unreadCounts.${uid}`]: 0 }
ResetUnread(unreadCounts, uid) == SetUnread(unreadCounts, uid, 0)

\* the forEach over chatData.members: every member but the sender gets the
\* counter of the snapshot plus one, written over the stored map
IncrementUnread(stored, chatData, uid) ==
    LET targets == Range(chatData.members) \ {uid}
    IN [x \in DOMAIN stored \cup targets |->
            IF x \in targets THEN UnreadOrZero(chatData.unreadCounts, x) + 1
            ELSE stored[x]]

\* the status of the access checks every handler starts with
AccessStatus(chatData, uid) ==
    IF ~chatData.exists THEN 404
    ELSE IF ~Includes(chatData.members, uid) THEN 403
    ELSE 200

Response(op, uid, c, status) ==
    [op |-> op, uid |-> uid, chat |-> c, status |-> status, unread |-> <<>>,
     pinnedMessages |-> <<>>]

Request(op, uid, c, pc, chatData, text) ==
    [op |-> op, uid |-> uid, chat |-> c, pc |-> pc, chatData |-> chatData,
     text |-> text, messageId |-> 0, isPinned |-> FALSE]

\* a request in flight moves on to its next await
Replace(bag, r, next) == (bag (-) SetToBag({r})) (+) SetToBag({next})

\* a handler that passed its checks goes on to its next await, the others
\* answer at once
Accept(op, uid, c, status, pc, text) ==
    /\ reqCount < MaxReqs
    /\ reqCount' = reqCount + 1
    /\ IF status = 200
       THEN /\ reqs' = reqs (+) SetToBag({Request(op, uid, c, pc, chats[c], text)})
            /\ UNCHANGED lastResponse
       ELSE /\ lastResponse' = Response(op, uid, c, status)
            /\ UNCHANGED reqs

\* sendMessage up to the read of the chat document
SendMessageBegin(uid, c, text) ==
    /\ Accept("sendMessage", uid, c,
              IF Trim(text) = "" THEN 400 ELSE AccessStatus(chats[c], uid),
              "add", text)
    /\ UNCHANGED <<clientVars, chats, chatMessages, typingDocs, viewedUpTo, chatsCreated>>

\* sendMessage: collection('messages').add(messageData)
SendMessageAdd(r) ==
    /\ r \in DOMAIN reqs
    /\ r.op = "sendMessage" /\ r.pc = "add"
    /\ chatMessages' = Append(chatMessages,
                              NewMessage(r.chat, Len(chatMessages) + 1, r.uid, r.text, <<>>))
    /\ reqs' = Replace(reqs, r, [r EXCEPT !.pc = "update",
                                           !.messageId = Len(chatMessages) + 1])
    /\ UNCHANGED <<clientVars, chats, typingDocs, reqCount, lastResponse, viewedUpTo, chatsCreated>>

\* sendMessage: chatDoc.ref.update(updateData); update of a missing
\* document rejects and the catch answers 500
SendMessageUpdate(r) ==
    /\ r \in DOMAIN reqs
    /\ r.op = "sendMessage" /\ r.pc = "update"
    /\ LET c == r.chat
       IN IF chats[c].exists
          THEN /\ chats' = [chats EXCEPT
                      ![c].lastMessageId = r.messageId,
                      ![c].unreadCounts =
                          IncrementUnread(@, r.chatData, r.uid)]
               /\ reqs' = Replace(reqs, r, [r EXCEPT !.pc = "typing"])
               /\ UNCHANGED lastResponse
          ELSE /\ lastResponse' = Response("sendMessage", r.uid, c, 500)
               /\ reqs' = reqs (-) SetToBag({r})
               /\ UNCHANGED chats
    /\ UNCHANGED <<clientVars, chatMessages, typingDocs, reqCount, viewedUpTo, chatsCreated>>

\* sendMessage: the sender's typing document is deleted; building the
\* response then calls toDate() on a Date, which throws, so the catch
\* answers 500 after every write has been made
SendMessageClearTyping(r) ==
    /\ r \in DOMAIN reqs
    /\ r.op = "sendMessage" /\ r.pc = "typing"
    /\ typingDocs' = {d \in typingDocs :
                         ~(d.chat = r.chat /\ d.key = DocKeyUid(r.uid))}
    /\ lastResponse' = Response("sendMessage", r.uid, r.chat, 500)
    /\ reqs' = reqs (-) SetToBag({r})
    /\ UNCHANGED <<clientVars, chats, chatMessages, reqCount, viewedUpTo, chatsCreated>>

\* getChatMessages up to the reads of the chat document and its messages
GetChatMessagesBegin(uid, c) ==
    /\ Accept("getChatMessages", uid, c, AccessStatus(chats[c], uid), "reset", "")
    /\ UNCHANGED <<clientVars, chats, chatMessages, typingDocs, viewedUpTo, chatsCreated>>

\* getChatById up to the reads of the chat document and the member profiles
GetChatByIdBegin(uid, c) ==
    /\ Accept("getChatById", uid, c, AccessStatus(chats[c], uid), "reset", "")
    /\ UNCHANGED <<clientVars, chats, chatMessages, typingDocs, viewedUpTo, chatsCreated>>

\* the last await of both view handlers: chatDoc.ref.update(updateData)
ResetAndRespond(r) ==
    LET c == r.chat
        uid == r.uid
    IN /\ r.pc = "reset"
       /\ IF chats[c].exists
          THEN /\ chats' = [chats EXCEPT ![c].unreadCounts = ResetUnread(@, uid)]
               /\ lastResponse' = Response(r.op, uid, c, 200)
               /\ viewedUpTo' = [viewedUpTo EXCEPT ![c][uid] = Len(chatMessages)]
          ELSE /\ lastResponse' = Response(r.op, uid, c, 500)
               /\ UNCHANGED <<chats, viewedUpTo, chatsCreated>>
       /\ reqs' = reqs (-) SetToBag({r})
       /\ UNCHANGED <<clientVars, chatMessages, typingDocs, reqCount, chatsCreated>>

GetChatMessagesReset(r) ==
    /\ r \in DOMAIN reqs
    /\ r.op = "getChatMessages"
    /\ ResetAndRespond(r)

GetChatByIdReset(r) ==
    /\ r \in DOMAIN reqs
    /\ r.op = "getChatById"
    /\ ResetAndRespond(r)

\* getUserChats: the counters reported come from the one query snapshot
GetUserChats(uid) ==
    /\ reqCount < MaxReqs
    /\ reqCount' = reqCount + 1
    /\ lastResponse' =
           [op |-> "getUserChats", uid |-> uid, chat |-> 0, status |-> 200,
            unread |-> [c \in {x \in ChatIds : chats[x].exists
                                              /\ Includes(chats[x].members, uid)}
                          |-> UnreadOrZero(chats[c].unreadCounts, uid)],
            pinnedMessages |-> <<>>]
    /\ UNCHANGED <<clientVars, chats, chatMessages, typingDocs, reqs, viewedUpTo, chatsCreated>>

\* ------------------------------------------------- chats: create, add, leave
\* (src/server/src/controllers/chats.ts, src/server/src/routes/chats.ts,
\*  src/client/src/components/CreateChatModal.tsx)

\* the member lists a request body or a user selection can carry
MemberLists ==
    {<<>>} \cup {<<u>> : u \in Users}
           \cup ({<<u, v>> : u, v \in Users} \ {<<u, u>> : u \in Users})

RECURSIVE Dedupe(_)
\* [...new Set(seq)]: the first occurrence of every element, in order
Dedupe(seq) ==
    IF seq = <<>> THEN <<>>
    ELSE LET init == Dedupe(SubSeq(seq, 1, Len(seq) - 1))
             last == seq[Len(seq)]
         IN IF Includes(init, last) THEN init ELSE Append(init, last)

RECURSIVE SortSet(_)
SortSet(set) ==
    IF set = {} THEN <<>>
    ELSE LET least == CHOOSE x \in set : \A y \in set : x <= y
         IN <<least>> \o SortSet(set \ {least})

\* Array.prototype.sort() of a list without repetitions
Sort(seq) == SortSet(Range(seq))

\* members.filter(memberId => memberId !== uid)
Without(seq, uid) == SelectSeq(seq, LAMBDA m : m # uid)

NewChat(members, isGroup, createdBy) ==
    [exists |-> TRUE, members |-> members, isGroup |-> isGroup,
     createdBy |-> createdBy, unreadCounts |-> <<>>, lastMessageId |-> 0,
     lastMessage |-> "", lastMessageTime |-> 0, title |-> "",
     folderName |-> ""]

\* creations that are accepted and not yet written
PendingAdds == BagCardinality([r \in {x \in DOMAIN reqs : x.pc = "add"} |-> reqs[r]])

\* collection('chats').add(chatData): the document gets a fresh id
AddChat(chatData) ==
    /\ chatsCreated < MaxChats
    /\ chatsCreated' = chatsCreated + 1
    /\ chats' = [chats EXCEPT ![chatsCreated + 1] = chatData]

CreateRequest(op, uid, members, isGroup) ==
    [Request(op, uid, 0, "add", NoChat, "") EXCEPT
        !.chatData = NewChat(members, isGroup, uid)]

MembersRequest(op, uid, c, pc, members) ==
    [Request(op, uid, c, pc, chats[c], "") EXCEPT !.chatData.members = members]

unreadState == <<chatMessages, typingDocs, viewedUpTo>>

\* controllers createChat up to its first await: the query for an existing
\* direct chat, or the add when no query is made
CreateChatBegin(uid, members, isGroup, name) ==
    /\ reqCount < MaxReqs
    /\ reqCount' = reqCount + 1
    /\ LET allMembers == Dedupe(members \o <<uid>>)
           sorted == Sort(allMembers)
           existing == {c \in ChatIds : /\ chats[c].exists
                                        /\ chats[c].members = sorted
                                        /\ chats[c].isGroup = FALSE}
       IN IF isGroup /\ name = ""
          THEN /\ lastResponse' = Response("createChat", uid, 0, 400)
               /\ UNCHANGED <<chats, chatsCreated, reqs>>
          ELSE IF ~isGroup /\ Len(allMembers) = 2
          THEN IF existing # {}
               THEN /\ lastResponse' = Response("createChat", uid,
                                                CHOOSE c \in existing : TRUE, 200)
                    /\ UNCHANGED <<chats, chatsCreated, reqs>>
               ELSE /\ chatsCreated + PendingAdds < MaxChats
                    /\ reqs' = reqs (+) SetToBag({CreateRequest("createChat", uid,
                                                                sorted, isGroup)})
                    /\ UNCHANGED <<chats, chatsCreated, lastResponse>>
          ELSE /\ chatsCreated + PendingAdds < MaxChats
               /\ AddChat(NewChat(allMembers, isGroup, uid))
               /\ lastResponse' = Response("createChat", uid, chatsCreated + 1, 201)
               /\ UNCHANGED reqs
    /\ UNCHANGED <<clientVars, unreadState>>

\* controllers createChat: the add after the query found nothing
CreateChatAdd(r) ==
    /\ r \in DOMAIN reqs
    /\ r.op = "createChat" /\ r.pc = "add"
    /\ AddChat(r.chatData)
    /\ lastResponse' = Response("createChat", r.uid, chatsCreated + 1, 201)
    /\ reqs' = reqs (-) SetToBag({r})
    /\ UNCHANGED <<clientVars, unreadState, reqCount>>

\* routes POST /api/chats: one await, the add
RoutesCreateChat(userId, members, isGroup, title) ==
    /\ reqCount < MaxReqs
    /\ reqCount' = reqCount + 1
    /\ IF Len(members) = 0 \/ (isGroup /\ title = "")
       THEN /\ lastResponse' = Response("POST /api/chats", userId, 0, 400)
            /\ UNCHANGED <<chats, chatsCreated>>
       ELSE /\ chatsCreated + PendingAdds < MaxChats
            /\ AddChat(NewChat(IF Includes(members, userId) THEN members
                               ELSE Append(members, userId),
                               isGroup, userId))
            /\ lastResponse' = Response("POST /api/chats", userId, chatsCreated + 1, 201)
    /\ UNCHANGED <<clientVars, unreadState, reqs>>

\* CreateChatModal handleCreateChat up to its first await: getDocs for a
\* one-to-one chat, the addDoc otherwise
HandleCreateChatBegin(uid, selectedUsers, isGroup, title) ==
    /\ Len(selectedUsers) # 0
    /\ ~Includes(selectedUsers, uid)
    /\ ~(isGroup /\ title = "")
    /\ reqCount < MaxReqs
    /\ reqCount' = reqCount + 1
    /\ LET members == <<uid>> \o selectedUsers
           existingChat == {c \in ChatIds : /\ chats[c].exists
                                            /\ Includes(chats[c].members, uid)
                                            /\ Includes(chats[c].members, selectedUsers[1])
                                            /\ Len(chats[c].members) = 2
                                            /\ ~chats[c].isGroup}
       IN IF ~isGroup /\ Len(selectedUsers) = 1
          THEN IF existingChat # {}
               THEN /\ lastResponse' = Response("handleCreateChat", uid,
                                                CHOOSE c \in existingChat : TRUE, 200)
                    /\ UNCHANGED <<chats, chatsCreated, reqs>>
               ELSE /\ chatsCreated + PendingAdds < MaxChats
                    /\ reqs' = reqs (+) SetToBag({CreateRequest("handleCreateChat", uid,
                                                                members, isGroup)})
                    /\ UNCHANGED <<chats, chatsCreated, lastResponse>>
          ELSE /\ chatsCreated + PendingAdds < MaxChats
               /\ AddChat(NewChat(members, isGroup, uid))
               /\ lastResponse' = Response("handleCreateChat", uid, chatsCreated + 1, 201)
               /\ UNCHANGED reqs
    /\ UNCHANGED <<clientVars, unreadState>>

\* handleCreateChat: the addDoc after getDocs found nothing
HandleCreateChatAdd(r) ==
    /\ r \in DOMAIN reqs
    /\ r.op = "handleCreateChat" /\ r.pc = "add"
    /\ AddChat(r.chatData)
    /\ lastResponse' = Response("handleCreateChat", r.uid, chatsCreated + 1, 201)
    /\ reqs' = reqs (-) SetToBag({r})
    /\ UNCHANGED <<clientVars, unreadState, reqCount>>

\* CreateChatModal handleCreateEmptyFolder: a placeholder group of one
HandleCreateEmptyFolder(uid) ==
    /\ reqCount < MaxReqs
    /\ reqCount' = reqCount + 1
    /\ chatsCreated + PendingAdds < MaxChats
    /\ AddChat(NewChat(<<uid>>, TRUE, uid))
    /\ lastResponse' = Response("handleCreateEmptyFolder", uid, chatsCreated + 1, 201)
    /\ UNCHANGED <<clientVars, unreadState, reqs>>

\* a request that read the chat document goes on to write the members it
\* computed from that snapshot, the others answer at once
AcceptMembers(op, uid, c, status, members) ==
    /\ reqCount < MaxReqs
    /\ reqCount' = reqCount + 1
    /\ IF status = 200
       THEN /\ reqs' = reqs (+) SetToBag({MembersRequest(op, uid, c, "members", members)})
            /\ UNCHANGED lastResponse
       ELSE /\ lastResponse' = Response(op, uid, c, status)
            /\ UNCHANGED reqs
    /\ UNCHANGED <<clientVars, unreadState, chats, chatsCreated>>

\* controllers addChatMembers up to the read of the chat document
AddChatMembersBegin(uid, c, members) ==
    AcceptMembers("addChatMembers", uid, c,
                  IF Len(members) = 0 THEN 400
                  ELSE IF AccessStatus(chats[c], uid) # 200
                       THEN AccessStatus(chats[c], uid)
                  ELSE IF ~chats[c].isGroup THEN 400
                  ELSE 200,
                  Dedupe(chats[c].members \o members))

\* routes POST /api/chats/:id/members up to the read of the chat document
RoutesAddMembersBegin(userId, c, members) ==
    AcceptMembers("POST /api/chats/:id/members", userId, c,
                  IF Len(members) = 0 THEN 400
                  ELSE IF AccessStatus(chats[c], userId) # 200
                       THEN AccessStatus(chats[c], userId)
                  ELSE IF chats[c].isGroup /\ chats[c].createdBy # userId THEN 403
                  ELSE 200,
                  Dedupe(chats[c].members \o members))

\* controllers leaveChat up to the read of the chat document
LeaveChatBegin(uid, c) ==
    AcceptMembers("leaveChat", uid, c, AccessStatus(chats[c], uid),
                  Without(chats[c].members, uid))

\* update({ members: updatedMembers }); rejects when the document is gone
UpdateMembers(r) ==
    /\ IF chats[r.chat].exists
       THEN /\ chats' = [chats EXCEPT ![r.chat].members = r.chatData.members]
            /\ lastResponse' = Response(r.op, r.uid, r.chat, 200)
       ELSE /\ lastResponse' = Response(r.op, r.uid, r.chat, 500)
            /\ UNCHANGED chats
    /\ reqs' = reqs (-) SetToBag({r})
    /\ UNCHANGED <<clientVars, unreadState, reqCount, chatsCreated>>

AddChatMembersUpdate(r) ==
    /\ r \in DOMAIN reqs
    /\ r.op = "addChatMembers"
    /\ UpdateMembers(r)

RoutesAddMembersUpdate(r) ==
    /\ r \in DOMAIN reqs
    /\ r.op = "POST /api/chats/:id/members"
    /\ UpdateMembers(r)

\* leaveChat: delete when the caller was the last member of the snapshot,
\* update otherwise
LeaveChatWrite(r) ==
    /\ r \in DOMAIN reqs
    /\ r.op = "leaveChat"
    /\ IF Len(r.chatData.members) = 0
       THEN /\ chats' = [chats EXCEPT ![r.chat] = NoChat]
            /\ lastResponse' = Response(r.op, r.uid, r.chat, 200)
            /\ reqs' = reqs (-) SetToBag({r})
            /\ UNCHANGED <<clientVars, unreadState, reqCount, chatsCreated>>
       ELSE UpdateMembers(r)

InitUnread ==
    /\ fileUploads = <<>>
    /\ updatedUploads = <<>>
    /\ uploadBase = <<>>
    /\ uploadPending = {}
    /\ uploadLoading = FALSE
    /\ outcome = [f \in FileIds |-> "none"]
    /\ nextFile = 1
    /\ fileChat = [f \in FileIds |-> 0]
    /\ removed = {}
    /\ messageText = ""
    /\ isTyping = FALSE
    /\ typingWrites = <<>>
    /\ sending = <<>>
    /\ chatMessages = <<>>
    /\ chatDoc = [lastMessage |-> ""]
    /\ sendCount = 0
    /\ typingPhase = "idle"
    /\ typingDocs = {}
    /\ nextAuto = 1
    /\ typingTimeout = <<>>
    /\ inputCount = 0
    /\ now = 0
    /\ chatId = 1
    /\ chat = <<>>
    /\ messages = <<>>
    /\ typingUsers = {}
    /\ loading = TRUE
    /\ error = ""
    /\ getDocPending = {}
    /\ msgSnapDue = FALSE
    /\ typingSnapDue = FALSE
    /\ typingReqs = 0
    /\ messageDocs = <<>>
    /\ folderChats = <<>>
    /\ activeFolder = ""
    /\ searchTerm = <<>>
    /\ filteredChats = <<>>
    /\ groupedMessages = <<>>
    /\ pinnedMessages = <<>>
    /\ rendered = FALSE
    /\ alerts = <<>>
    /\ chats \in [ChatIds -> {MemberChat, ForeignChat, NoChat}]
    /\ chats[1] = MemberChat
    /\ chats[2] # MemberChat
    /\ chatsCreated = 0
    /\ reqs = EmptyBag
    /\ reqCount = 0
    /\ lastResponse = NoResponse
    /\ viewedUpTo = [c \in ChatIds |-> [u \in Users |-> 0]]

NextUnread ==
    \/ \E uid \in Users, c \in ChatIds, text \in {"", "hi"} : SendMessageBegin(uid, c, text)
    \/ \E r \in DOMAIN reqs : SendMessageAdd(r)
    \/ \E r \in DOMAIN reqs : SendMessageUpdate(r)
    \/ \E r \in DOMAIN reqs : SendMessageClearTyping(r)
    \/ \E uid \in Users, c \in ChatIds : GetChatMessagesBegin(uid, c)
    \/ \E r \in DOMAIN reqs : GetChatMessagesReset(r)
    \/ \E uid \in Users, c \in ChatIds : GetChatByIdBegin(uid, c)
    \/ \E r \in DOMAIN reqs : GetChatByIdReset(r)
    \/ \E uid \in Users : GetUserChats(uid)
    \/ \E uid \in Users, c \in ChatIds : LeaveChatBegin(uid, c)
    \/ \E r \in DOMAIN reqs : LeaveChatWrite(r)

SpecUnread == InitUnread /\ [][NextUnread]_vars

InitChats ==
    /\ fileUploads = <<>>
    /\ updatedUploads = <<>>
    /\ uploadBase = <<>>
    /\ uploadPending = {}
    /\ uploadLoading = FALSE
    /\ outcome = [f \in FileIds |-> "none"]
    /\ nextFile = 1
    /\ fileChat = [f \in FileIds |-> 0]
    /\ removed = {}
    /\ messageText = ""
    /\ isTyping = FALSE
    /\ typingWrites = <<>>
    /\ sending = <<>>
    /\ chatMessages = <<>>
    /\ chatDoc = [lastMessage |-> ""]
    /\ sendCount = 0
    /\ typingPhase = "idle"
    /\ typingDocs = {}
    /\ nextAuto = 1
    /\ typingTimeout = <<>>
    /\ inputCount = 0
    /\ now = 0
    /\ chatId = 1
    /\ chat = <<>>
    /\ messages = <<>>
    /\ typingUsers = {}
    /\ loading = TRUE
    /\ error = ""
    /\ getDocPending = {}
    /\ msgSnapDue = FALSE
    /\ typingSnapDue = FALSE
    /\ typingReqs = 0
    /\ messageDocs = <<>>
    /\ folderChats = <<>>
    /\ activeFolder = ""
    /\ searchTerm = <<>>
    /\ filteredChats = <<>>
    /\ groupedMessages = <<>>
    /\ pinnedMessages = <<>>
    /\ rendered = FALSE
    /\ alerts = <<>>
    /\ chats = [c \in ChatIds |-> NoChat]
    /\ chatsCreated = 0
    /\ reqs = EmptyBag
    /\ reqCount = 0
    /\ lastResponse = NoResponse
    /\ viewedUpTo = [c \in ChatIds |-> [u \in Users |-> 0]]

Names(isGroup) == IF isGroup THEN {"", "g"} ELSE {""}

NextChats ==
    \/ \E uid \in Users, members \in MemberLists, isGroup \in BOOLEAN :
           \E name \in Names(isGroup) : CreateChatBegin(uid, members, isGroup, name)
    \/ \E r \in DOMAIN reqs : CreateChatAdd(r)
    \/ \E userId \in Users, members \in MemberLists, isGroup \in BOOLEAN :
           \E title \in Names(isGroup) : RoutesCreateChat(userId, members, isGroup, title)
    \/ \E uid \in Users, selectedUsers \in MemberLists, isGroup \in BOOLEAN :
           \E title \in Names(isGroup) :
               HandleCreateChatBegin(uid, selectedUsers, isGroup, title)
    \/ \E r \in DOMAIN reqs : HandleCreateChatAdd(r)
    \/ \E uid \in Users : HandleCreateEmptyFolder(uid)
    \/ \E uid \in Users, c \in ChatIds, members \in MemberLists :
           AddChatMembersBegin(uid, c, members)
    \/ \E r \in DOMAIN reqs : AddChatMembersUpdate(r)
    \/ \E userId \in Users, c \in ChatIds, members \in MemberLists :
           RoutesAddMembersBegin(userId, c, members)
    \/ \E r \in DOMAIN reqs : RoutesAddMembersUpdate(r)
    \/ \E uid \in Users, c \in ChatIds : LeaveChatBegin(uid, c)
    \/ \E r \in DOMAIN reqs : LeaveChatWrite(r)

SpecChats == InitChats /\ [][NextChats]_vars

\* ------------------------------------------------- render: message groups
\* (src/unnamed/part_007, the grouping of the messages list at render)
\* Time is counted in units of 30 seconds of local time; a message whose
\* server timestamp is still pending has timestamp Pending (undefined).

Pending == -1
NoDate == -1

\* instants around 10:00 of one day, the end of that day and the next day
Times == {1200, 1201, 1202, 1210, 1211, 1220, 2879, 2880}

\* format(message.timestamp, 'yyyy-MM-dd')
FormatDay(timestamp) == timestamp \div DayUnits

GapAtLeast(message, previous) ==
    /\ message.timestamp # Pending
    /\ previous.timestamp # Pending
    /\ message.timestamp - previous.timestamp >= GroupGapUnits

\* message.timestamp && messages[index-1].timestamp &&
\* (message.timestamp.getTime() - messages[index-1].timestamp.getTime() > 5 * 60 * 1000)
GapExceeds(message, previous) ==
    /\ message.timestamp # Pending
    /\ previous.timestamp # Pending
    /\ message.timestamp - previous.timestamp > GroupGapUnits

RECURSIVE GroupFold(_, _)
\* the forEach of the render after its first n messages
GroupFold(list, n) ==
    IF n = 0
    THEN [groupedMessages |-> <<>>, currentGroup |-> <<>>,
          lastSenderId |-> 0, lastDate |-> NoDate]
    ELSE LET st == GroupFold(list, n - 1)
             message == list[n]
             messageDate == IF message.timestamp # Pending
                            THEN FormatDay(message.timestamp) ELSE NoDate
             split == \/ message.senderId # st.lastSenderId
                      \/ messageDate # st.lastDate
                      \/ (n > 1 /\ GapExceeds(message, list[n - 1]))
             push == split /\ Len(st.currentGroup) > 0
         IN [groupedMessages |-> IF push THEN Append(st.groupedMessages, st.currentGroup)
                                 ELSE st.groupedMessages,
             currentGroup |-> Append(IF push THEN <<>> ELSE st.currentGroup, message),
             lastSenderId |-> message.senderId,
             lastDate |-> messageDate]

GroupMessagesDropLast(list) == GroupFold(list, Len(list)).groupedMessages

\* groupedMessages as the render leaves it, the last group added
GroupMessages(list) ==
    LET st == GroupFold(list, Len(list))
    IN IF Len(st.currentGroup) > 0
       THEN Append(st.groupedMessages, st.currentGroup)
       ELSE st.groupedMessages

\* the lists the messages listener can deliver: ordered by timestamp, the
\* id of a message is its position
OrderedByTimestamp(list) ==
    \A i, j \in 1..Len(list) :
        (i < j /\ list[i].timestamp # Pending /\ list[j].timestamp # Pending)
            => list[i].timestamp <= list[j].timestamp

MessageLists ==
    UNION {{list \in [1..n -> [senderId : {1, 2}, timestamp : Times \cup {Pending},
                                isPinned : {FALSE}]] :
               OrderedByTimestamp(list)} : n \in 0..MaxMessages}

\* messages.filter(message => message.isPinned)
PinnedOf(list) == SelectSeq(list, LAMBDA message : message.isPinned)

\* a render of the Chat view
Render ==
    /\ pinnedMessages' = PinnedOf(messages)
    /\ groupedMessages' = GroupMessages(messages)
    /\ rendered' = TRUE
    /\ UNCHANGED <<uploadVars, sendVars, typingVars, typingStoreVars, now, chatId,
                   chat, messages, typingUsers, loading, error, getDocPending,
                   msgSnapDue, typingSnapDue, typingReqs, messageDocs, folderVars, chats, serverVars>>

InitGroup ==
    /\ fileUploads = <<>>
    /\ updatedUploads = <<>>
    /\ uploadBase = <<>>
    /\ uploadPending = {}
    /\ uploadLoading = FALSE
    /\ outcome = [f \in FileIds |-> "none"]
    /\ nextFile = 1
    /\ fileChat = [f \in FileIds |-> 0]
    /\ removed = {}
    /\ messageText = ""
    /\ isTyping = FALSE
    /\ typingWrites = <<>>
    /\ sending = <<>>
    /\ chatMessages = <<>>
    /\ chatDoc = [lastMessage |-> ""]
    /\ sendCount = 0
    /\ typingPhase = "idle"
    /\ typingDocs = {}
    /\ nextAuto = 1
    /\ typingTimeout = <<>>
    /\ inputCount = 0
    /\ now = 0
    /\ chatId = 1
    /\ chat = <<>>
    /\ messages \in MessageLists
    /\ typingUsers = {}
    /\ loading = FALSE
    /\ error = ""
    /\ getDocPending = {}
    /\ msgSnapDue = FALSE
    /\ typingSnapDue = FALSE
    /\ typingReqs = 0
    /\ messageDocs = <<>>
    /\ folderChats = <<>>
    /\ activeFolder = ""
    /\ searchTerm = <<>>
    /\ filteredChats = <<>>
    /\ groupedMessages = <<>>
    /\ pinnedMessages = <<>>
    /\ rendered = FALSE
    /\ alerts = <<>>
    /\ chats = [c \in ChatIds |-> MemberChat]
    /\ chatsCreated = 0
    /\ reqs = EmptyBag
    /\ reqCount = 0
    /\ lastResponse = NoResponse
    /\ viewedUpTo = [c \in ChatIds |-> [u \in Users |-> 0]]

NextGroup == Render

SpecGroup == InitGroup /\ [][NextGroup]_vars

\* ------------------------------------------------- messages: edit, delete, pin
\* (src/server/src/controllers/auth.ts, src/unnamed/part_009)

\* doc(chatId).collection('messages').doc(messageId) exists
MessageExists(c, messageId) ==
    /\ messageId \in 1..Len(chatMessages)
    /\ chatMessages[messageId].chat = c
    /\ ~chatMessages[messageId].deleted

\* collection('messages').orderBy('timestamp', 'desc').limit(1): the id of
\* the newest message of the chat, 0 when the query is empty
NewestMessage(c) ==
    LET ids == {k \in 1..Len(chatMessages) : MessageExists(c, k)}
    IN IF ids = {} THEN 0
       ELSE CHOOSE k \in ids : \A j \in ids :
                chatMessages[j].timestamp <= chatMessages[k].timestamp

RECURSIVE Reverse(_)
Reverse(seq) ==
    IF seq = <<>> THEN <<>>
    ELSE <<seq[Len(seq)]>> \o Reverse(SubSeq(seq, 1, Len(seq) - 1))

\* where('isPinned', '==', true).orderBy('timestamp', 'desc'); chatMessages
\* is in timestamp order
PinnedQuery(c) ==
    Reverse(SelectSeq(chatMessages,
                      LAMBDA m : m.chat = c /\ ~m.deleted /\ m.isPinned = TRUE))

\* every variable a server handler of messages leaves alone
messageFrame == <<uploadVars, typingVars, messageText, sending, chatDoc, sendCount,
                  alerts, nextAuto, typingTimeout, inputCount, now, chatId, viewVars,
                  typingReqs, messageDocs, folderVars, groupedMessages, rendered, typingDocs, viewedUpTo,
                  chatsCreated>>

\* a handler that passed the checks on the chat goes on to read the message
AcceptMessage(op, uid, c, messageId, status, text, isPinned) ==
    /\ reqCount < MaxMessageReqs
    /\ reqCount' = reqCount + 1
    /\ IF status = 200
       THEN /\ reqs' = reqs (+) SetToBag({[Request(op, uid, c, "getMessage", chats[c], text)
                                              EXCEPT !.messageId = messageId,
                                                     !.isPinned = isPinned]})
            /\ UNCHANGED lastResponse
       ELSE /\ lastResponse' = Response(op, uid, c, status)
            /\ UNCHANGED reqs
    /\ UNCHANGED <<messageFrame, pinnedMessages, chats, chatMessages>>

\* the read of the message document: 404 when it is missing, 403 when the
\* handler is for the sender only and the caller is someone else
GetMessage(r, senderOnly, next) ==
    /\ r.pc = "getMessage"
    /\ IF ~MessageExists(r.chat, r.messageId)
       THEN /\ lastResponse' = Response(r.op, r.uid, r.chat, 404)
            /\ reqs' = reqs (-) SetToBag({r})
       ELSE IF senderOnly /\ chatMessages[r.messageId].senderId # r.uid
       THEN /\ lastResponse' = Response(r.op, r.uid, r.chat, 403)
            /\ reqs' = reqs (-) SetToBag({r})
       ELSE /\ reqs' = Replace(reqs, r, [r EXCEPT !.pc = next])
            /\ UNCHANGED lastResponse
    /\ UNCHANGED <<messageFrame, pinnedMessages, chats, chatMessages, reqCount>>

\* messageDoc.ref.update(fields) and the 200 response; the update of a
\* document deleted meanwhile rejects and the catch answers 500
UpdateMessageDoc(r, updated) ==
    /\ IF MessageExists(r.chat, r.messageId)
       THEN /\ chatMessages' = [chatMessages EXCEPT ![r.messageId] = updated]
            /\ lastResponse' = Response(r.op, r.uid, r.chat, 200)
       ELSE /\ lastResponse' = Response(r.op, r.uid, r.chat, 500)
            /\ UNCHANGED chatMessages
    /\ reqs' = reqs (-) SetToBag({r})
    /\ UNCHANGED <<messageFrame, pinnedMessages, chats, reqCount>>

\* updateMessage up to the read of the chat document
UpdateMessageBegin(uid, c, messageId, text) ==
    AcceptMessage("updateMessage", uid, c, messageId,
                  IF Trim(text) = "" THEN 400 ELSE AccessStatus(chats[c], uid),
                  text, FALSE)

UpdateMessageGet(r) ==
    /\ r \in DOMAIN reqs
    /\ r.op = "updateMessage"
    /\ GetMessage(r, TRUE, "update")

EditedPinned(message, text) == [message EXCEPT !.text = text, !.isEdited = TRUE,
                                               !.isPinned = TRUE]

\* update({ text, isEdited: true })
Edited(message, text) == [message EXCEPT !.text = text, !.isEdited = TRUE]

UpdateMessageWrite(r) ==
    /\ r \in DOMAIN reqs
    /\ r.op = "updateMessage" /\ r.pc = "update"
    /\ UpdateMessageDoc(r, Edited(chatMessages[r.messageId], r.text))

\* togglePinMessage up to the read of the chat document
\* req.body of togglePinMessage: with or without the isPinned property
PinBodies == {[isPinned |-> TRUE], [isPinned |-> FALSE], [pinned |-> TRUE]}

TogglePinMessageBegin(uid, c, messageId, body) ==
    IF "isPinned" \in DOMAIN body
    THEN AcceptMessage("togglePinMessage", uid, c, messageId,
                       AccessStatus(chats[c], uid), "", body.isPinned)
    ELSE AcceptMessage("togglePinMessage", uid, c, messageId, 400, "", FALSE)

TogglePinMessageGet(r) ==
    /\ r \in DOMAIN reqs
    /\ r.op = "togglePinMessage"
    /\ GetMessage(r, FALSE, "update")

\* update({ isPinned })
Pinned(message, isPinned) == [message EXCEPT !.isPinned = isPinned]

TogglePinMessageWrite(r) ==
    /\ r \in DOMAIN reqs
    /\ r.op = "togglePinMessage" /\ r.pc = "update"
    /\ UpdateMessageDoc(r, Pinned(chatMessages[r.messageId], r.isPinned))

\* deleteMessage up to the read of the chat document
DeleteMessageBegin(uid, c, messageId) ==
    AcceptMessage("deleteMessage", uid, c, messageId,
                  AccessStatus(chats[c], uid), "", FALSE)

DeleteMessageGet(r) ==
    /\ r \in DOMAIN reqs
    /\ r.op = "deleteMessage"
    /\ GetMessage(r, TRUE, "delete")

\* messageDoc.ref.delete(); the handler answers unless the chat snapshot
\* named this message as the last one
DeleteMessageDelete(r) ==
    /\ r \in DOMAIN reqs
    /\ r.op = "deleteMessage" /\ r.pc = "delete"
    /\ chatMessages' = [chatMessages EXCEPT ![r.messageId].deleted = TRUE]
    /\ IF r.chatData.lastMessageId = r.messageId
       THEN /\ reqs' = Replace(reqs, r, [r EXCEPT !.pc = "query"])
            /\ UNCHANGED lastResponse
       ELSE /\ reqs' = reqs (-) SetToBag({r})
            /\ lastResponse' = Response(r.op, r.uid, r.chat, 200)
    /\ UNCHANGED <<messageFrame, pinnedMessages, chats, reqCount>>

\* deleteMessage: "Find the new last message"
DeleteMessageQuery(r) ==
    /\ r \in DOMAIN reqs
    /\ r.op = "deleteMessage" /\ r.pc = "query"
    /\ reqs' = Replace(reqs, r, [r EXCEPT !.pc = "repoint",
                                          !.messageId = NewestMessage(r.chat)])
    /\ UNCHANGED <<messageFrame, pinnedMessages, chats, chatMessages, reqCount,
                   lastResponse>>

\* deleteMessage: chatDoc.ref.update({ lastMessageId, lastMessageAt })
DeleteMessageRepoint(r) ==
    /\ r \in DOMAIN reqs
    /\ r.op = "deleteMessage" /\ r.pc = "repoint"
    /\ IF chats[r.chat].exists
       THEN /\ chats' = [chats EXCEPT ![r.chat].lastMessageId = r.messageId]
            /\ lastResponse' = Response(r.op, r.uid, r.chat, 200)
       ELSE /\ lastResponse' = Response(r.op, r.uid, r.chat, 500)
            /\ UNCHANGED chats
    /\ reqs' = reqs (-) SetToBag({r})
    /\ UNCHANGED <<messageFrame, pinnedMessages, chatMessages, reqCount>>

\* getPinnedMessages up to the read of the chat document
GetPinnedMessagesBegin(uid, c) ==
    /\ Accept("getPinnedMessages", uid, c, AccessStatus(chats[c], uid), "query", "")
    /\ UNCHANGED <<clientVars, chats, chatMessages, typingDocs, viewedUpTo, chatsCreated>>

\* getPinnedMessages: the query and the 200 response with its result
GetPinnedMessagesQuery(r) ==
    /\ r \in DOMAIN reqs
    /\ r.op = "getPinnedMessages" /\ r.pc = "query"
    /\ lastResponse' = [Response(r.op, r.uid, r.chat, 200)
                            EXCEPT !.pinnedMessages = PinnedQuery(r.chat)]
    /\ reqs' = reqs (-) SetToBag({r})
    /\ UNCHANGED <<messageFrame, pinnedMessages, chats, chatMessages, reqCount>>

\* every variable a message handler of the Chat view leaves alone
viewFrame == <<uploadVars, typingVars, messageText, sending, chatDoc, sendCount,
               nextAuto, typingTimeout, now, chatId, viewVars, typingReqs, messageDocs, folderVars,
               renderVars, typingDocs, chats, serverVars>>

\* a click of the Chat view on message k of the list it shows
Click(k) ==
    /\ k \in 1..Len(messages)
    /\ inputCount < MaxClicks
    /\ inputCount' = inputCount + 1

\* the write of a message handler of the Chat view rejected: the catch
\* block alerts
WriteFailed(k, text) ==
    /\ Click(k)
    /\ alerts' = Append(alerts, text)
    /\ UNCHANGED <<viewFrame, chatMessages>>

\* handleDeleteMessage: deleteDoc of the message
HandleDeleteMessage(k) ==
    /\ Click(k)
    /\ chatMessages' = [chatMessages EXCEPT ![messages[k].id].deleted = TRUE]
    /\ UNCHANGED <<viewFrame, alerts>>

HandleDeleteMessageFailed(k) ==
    WriteFailed(k, "Failed to delete message. Please try again.")

\* handleEditMessage for editingMessageId = messages[k].id: updateDoc of
\* text, isEdited and editedAt; updateDoc of a missing document rejects
HandleEditMessage(k, editingText) ==
    /\ Click(k)
    /\ MessageExists(chatId, messages[k].id)
    /\ chatMessages' = [chatMessages EXCEPT ![messages[k].id] = Edited(@, Trim(editingText))]
    /\ UNCHANGED <<viewFrame, alerts>>

HandleEditMessageFailed(k) ==
    WriteFailed(k, "Failed to edit message. Please try again.")

\* handlePinMessage(message.id, message.isPinned): updateDoc of isPinned
HandlePinMessage(k) ==
    /\ Click(k)
    /\ MessageExists(chatId, messages[k].id)
    /\ chatMessages' = [chatMessages EXCEPT ![messages[k].id] =
                            Pinned(@, ~messages[k].isPinned)]
    /\ UNCHANGED <<viewFrame, alerts>>

HandlePinMessageFailed(k) ==
    WriteFailed(k, "Failed to pin message. Please try again.")

\* the messages listener delivers the changed result of its query
MessagesChanged ==
    /\ messages # SelectSeq(chatMessages, LAMBDA m : m.chat = chatId /\ ~m.deleted)
    /\ messages' = SelectSeq(chatMessages, LAMBDA m : m.chat = chatId /\ ~m.deleted)
    /\ rendered' = FALSE
    /\ UNCHANGED <<nonView, now, chatId, chat, typingUsers, loading, error,
                   getDocPending, msgSnapDue, typingSnapDue, typingReqs, messageDocs, folderVars, chats,
                   serverVars, groupedMessages, pinnedMessages>>

\* the document POST /api/messages adds; '' stands for an absent content or
\* fileUrl
MessageDoc(id, c, userId, timestamp, content, fileUrl) ==
    [id |-> id, chatId |-> c, senderId |-> userId, timestamp |-> timestamp,
     readBy |-> <<userId>>, content |-> content, fileUrl |-> fileUrl,
     edited |-> FALSE, pinned |-> FALSE, deleted |-> FALSE]

InitMessages ==
    /\ fileUploads = <<>>
    /\ updatedUploads = <<>>
    /\ uploadBase = <<>>
    /\ uploadPending = {}
    /\ uploadLoading = FALSE
    /\ outcome = [f \in FileIds |-> "none"]
    /\ nextFile = 1
    /\ fileChat = [f \in FileIds |-> 0]
    /\ removed = {}
    /\ messageText = ""
    /\ isTyping = FALSE
    /\ typingWrites = <<>>
    /\ sending = <<>>
    /\ chatMessages = <<NewMessage(1, 1, 1, "hi", <<>>), NewMessage(1, 2, 2, "hi", <<>>)>>
    /\ chatDoc = [lastMessage |-> ""]
    /\ sendCount = 0
    /\ typingPhase = "idle"
    /\ typingDocs = {}
    /\ nextAuto = 1
    /\ typingTimeout = <<>>
    /\ inputCount = 0
    /\ now = 0
    /\ chatId = 1
    /\ chat = <<>>
    /\ messages = chatMessages
    /\ typingUsers = {}
    /\ loading = FALSE
    /\ error = ""
    /\ getDocPending = {}
    /\ msgSnapDue = FALSE
    /\ typingSnapDue = FALSE
    /\ typingReqs = 0
    /\ messageDocs = <<MessageDoc(1, 1, 1, 0, "hi", ""), MessageDoc(2, 1, 2, 0, "hi", "")>>
    /\ folderChats = <<>>
    /\ activeFolder = ""
    /\ searchTerm = <<>>
    /\ filteredChats = <<>>
    /\ groupedMessages = <<>>
    /\ pinnedMessages = <<>>
    /\ rendered = FALSE
    /\ alerts = <<>>
    /\ chats = [c \in ChatIds |->
                   IF c = 1
                   THEN [MemberChat EXCEPT !.lastMessageId = 2,
                                           !.unreadCounts = <<1, 1, 2>>]
                   ELSE ForeignChat]
    /\ chatsCreated = 0
    /\ reqs = EmptyBag
    /\ reqCount = 0
    /\ lastResponse = NoResponse
    /\ viewedUpTo = [c \in ChatIds |-> [u \in Users |-> 0]]

MessageIds == 1..(Len(chatMessages) + 1)

\* callers of the message handlers: the sender of message 1, who is no
\* member of chat 2, and the sender of message 2
Callers == {1, 2}

NextMessages ==
    \/ \E uid \in Callers, c \in ChatIds, messageId \in MessageIds, text \in {"", "hey"} :
           UpdateMessageBegin(uid, c, messageId, text)
    \/ \E r \in DOMAIN reqs : UpdateMessageGet(r)
    \/ \E r \in DOMAIN reqs : UpdateMessageWrite(r)
    \/ \E uid \in Callers, c \in ChatIds, messageId \in MessageIds, body \in PinBodies :
           TogglePinMessageBegin(uid, c, messageId, body)
    \/ \E r \in DOMAIN reqs : TogglePinMessageGet(r)
    \/ \E r \in DOMAIN reqs : TogglePinMessageWrite(r)
    \/ \E uid \in Callers, c \in ChatIds, messageId \in MessageIds :
           DeleteMessageBegin(uid, c, messageId)
    \/ \E r \in DOMAIN reqs : DeleteMessageGet(r)
    \/ \E r \in DOMAIN reqs : DeleteMessageDelete(r)
    \/ \E r \in DOMAIN reqs : DeleteMessageQuery(r)
    \/ \E r \in DOMAIN reqs : DeleteMessageRepoint(r)
    \/ \E uid \in Callers, c \in ChatIds : GetPinnedMessagesBegin(uid, c)
    \/ \E r \in DOMAIN reqs : GetPinnedMessagesQuery(r)
    \/ \E k \in 1..MaxMessages : HandleDeleteMessage(k)
    \/ \E k \in 1..MaxMessages : HandleDeleteMessageFailed(k)
    \/ \E k \in 1..MaxMessages, editingText \in {" ", "hey"} : HandleEditMessage(k, editingText)
    \/ \E k \in 1..MaxMessages : HandleEditMessageFailed(k)
    \/ \E k \in 1..MaxMessages : HandlePinMessage(k)
    \/ \E k \in 1..MaxMessages : HandlePinMessageFailed(k)
    \/ MessagesChanged
    \/ Render

SpecMessages == InitMessages /\ [][NextMessages]_vars

\* the handlers that edit and pin messages, next to a deletion
NextEdit ==
    \/ \E uid \in Callers, c \in ChatIds, messageId \in MessageIds, text \in {"", "hey"} :
           UpdateMessageBegin(uid, c, messageId, text)
    \/ \E r \in DOMAIN reqs : UpdateMessageGet(r)
    \/ \E r \in DOMAIN reqs : UpdateMessageWrite(r)
    \/ \E uid \in Callers, c \in ChatIds, messageId \in MessageIds, body \in PinBodies :
           TogglePinMessageBegin(uid, c, messageId, body)
    \/ \E r \in DOMAIN reqs : TogglePinMessageGet(r)
    \/ \E r \in DOMAIN reqs : TogglePinMessageWrite(r)
    \/ \E k \in 1..MaxMessages : HandleDeleteMessage(k)
    \/ \E k \in 1..MaxMessages, editingText \in {" ", "hey"} : HandleEditMessage(k, editingText)
    \/ \E k \in 1..MaxMessages : HandleEditMessageFailed(k)
    \/ \E k \in 1..MaxMessages : HandlePinMessage(k)
    \/ \E k \in 1..MaxMessages : HandlePinMessageFailed(k)
    \/ MessagesChanged

SpecEdit == InitMessages /\ [][NextEdit]_vars

\* ------------------------------------------------- routes: /api/messages
\* (src/unnamed/part_001, the top-level collection 'messages')

\* db.collection('messages').doc(messageId) exists
DocExists(messageId) ==
    /\ messageId \in 1..Len(messageDocs)
    /\ ~messageDocs[messageId].deleted

\* every variable the routes of /api/messages leave alone
routeFrame == <<uploadVars, typingVars, messageText, sending, chatDoc, sendCount,
                alerts, nextAuto, typingTimeout, inputCount, now, chatId, viewVars,
                typingReqs, renderVars, chatMessages, typingDocs, viewedUpTo,
                chatsCreated, folderVars>>

RouteRequest(op, userId, c, pc, messageId, content, fileUrl, readBy) ==
    [op |-> op, uid |-> userId, chat |-> c, pc |-> pc, messageId |-> messageId,
     text |-> content, fileUrl |-> fileUrl, timestamp |-> reqCount + 1,
     readBy |-> readBy, pinned |-> FALSE]

\* a route that passed its checks goes on to its next await, the others
\* answer at once
AcceptRoute(limit, status, request) ==
    /\ reqCount < limit
    /\ reqCount' = reqCount + 1
    /\ IF status = 200
       THEN /\ reqs' = reqs (+) SetToBag({request})
            /\ UNCHANGED lastResponse
       ELSE /\ lastResponse' = Response(request.op, request.uid, request.chat, status)
            /\ UNCHANGED reqs
    /\ UNCHANGED <<routeFrame, chats, messageDocs>>

\* a route answers and ends
Answer(r, status) ==
    /\ lastResponse' = Response(r.op, r.uid, r.chat, status)
    /\ reqs' = reqs (-) SetToBag({r})

\* POST /api/messages up to the read of the chat document; c = 0 stands
\* for a body without chatId
PostMessageBegin(userId, c, content, fileUrl) ==
    AcceptRoute(MaxReqs,
                IF c = 0 THEN 400
                ELSE IF content = "" /\ fileUrl = "" THEN 400
                ELSE AccessStatus(chats[c], userId),
                RouteRequest("POST /api/messages", userId, c, "add", 0, content,
                             fileUrl, <<>>))

\* POST /api/messages: db.collection('messages').add(messageData)
PostMessageAdd(r) ==
    /\ r \in DOMAIN reqs
    /\ r.op = "POST /api/messages" /\ r.pc = "add"
    /\ Len(messageDocs) < MaxMessages
    /\ messageDocs' = Append(messageDocs,
                             MessageDoc(Len(messageDocs) + 1, r.chat, r.uid, r.timestamp,
                                        r.text, r.fileUrl))
    /\ reqs' = Replace(reqs, r, [r EXCEPT !.pc = "update",
                                           !.messageId = Len(messageDocs) + 1])
    /\ UNCHANGED <<routeFrame, chats, reqCount, lastResponse>>

\* POST /api/messages: update of lastMessageTime and lastMessage, then 201
PostMessageUpdate(r) ==
    /\ r \in DOMAIN reqs
    /\ r.op = "POST /api/messages" /\ r.pc = "update"
    /\ IF chats[r.chat].exists
       THEN /\ chats' = [chats EXCEPT
                   ![r.chat].lastMessageTime = r.timestamp,
                   ![r.chat].lastMessage = IF r.text # "" THEN r.text
                                           ELSE "Shared a file"]
            /\ Answer(r, 201)
       ELSE /\ Answer(r, 500)
            /\ UNCHANGED chats
    /\ UNCHANGED <<routeFrame, messageDocs, reqCount>>

SenderStatusUnchecked(messageId, userId) ==
    IF ~DocExists(messageId) THEN 404 ELSE 200

\* the read of the message document and the check that the caller sent it
SenderStatus(messageId, userId) ==
    IF ~DocExists(messageId) THEN 404
    ELSE IF messageDocs[messageId].senderId # userId THEN 403
    ELSE 200

\* PUT /api/messages/:id up to the read of the message document
PutMessageBegin(userId, messageId, content) ==
    AcceptRoute(MaxMessageReqs,
                IF content = "" THEN 400 ELSE SenderStatus(messageId, userId),
                RouteRequest("PUT /api/messages/:id", userId, 0, "update", messageId,
                             content, "", <<>>))

\* update({ content, edited: true })
EditedDoc(document, content) == [document EXCEPT !.content = content, !.edited = TRUE]

\* PUT /api/messages/:id: the update, which rejects when the document is
\* gone
PutMessageUpdate(r) ==
    /\ r \in DOMAIN reqs
    /\ r.op = "PUT /api/messages/:id" /\ r.pc = "update"
    /\ IF DocExists(r.messageId)
       THEN /\ messageDocs' = [messageDocs EXCEPT ![r.messageId] = EditedDoc(@, r.text)]
            /\ Answer(r, 200)
       ELSE /\ Answer(r, 500)
            /\ UNCHANGED messageDocs
    /\ UNCHANGED <<routeFrame, chats, reqCount>>

\* DELETE /api/messages/:id up to the read of the message document
DeleteRouteBegin(userId, messageId) ==
    AcceptRoute(MaxMessageReqs, SenderStatus(messageId, userId),
                RouteRequest("DELETE /api/messages/:id", userId, 0, "delete", messageId,
                             "", "", <<>>))

\* DELETE /api/messages/:id: the delete, which succeeds on a missing
\* document too
DeleteRouteDelete(r) ==
    /\ r \in DOMAIN reqs
    /\ r.op = "DELETE /api/messages/:id" /\ r.pc = "delete"
    /\ messageDocs' = [messageDocs EXCEPT ![r.messageId].deleted = TRUE]
    /\ Answer(r, 200)
    /\ UNCHANGED <<routeFrame, chats, reqCount>>

\* the read of the chat of a message and the membership check
ChatStatus(r) == AccessStatus(chats[r.chat], r.uid)

\* PUT /api/messages/:id/pin up to the read of the message document; the
\* body has the property pinned or not
PinBodiesRoute == {[pinned |-> TRUE], [pinned |-> FALSE], [isPinned |-> TRUE]}

PinRouteBegin(userId, messageId, body) ==
    AcceptRoute(MaxMessageReqs,
                IF "pinned" \notin DOMAIN body THEN 400
                ELSE IF ~DocExists(messageId) THEN 404
                ELSE 200,
                [RouteRequest("PUT /api/messages/:id/pin", userId,
                              IF DocExists(messageId) THEN messageDocs[messageId].chatId
                              ELSE 0,
                              "getChat", messageId, "", "", <<>>)
                    EXCEPT !.pinned = IF "pinned" \in DOMAIN body THEN body.pinned
                                      ELSE FALSE])

\* PUT /api/messages/:id/pin: the read of the chat document
PinRouteGetChat(r) ==
    /\ r \in DOMAIN reqs
    /\ r.op = "PUT /api/messages/:id/pin" /\ r.pc = "getChat"
    /\ IF ChatStatus(r) = 200
       THEN /\ reqs' = Replace(reqs, r, [r EXCEPT !.pc = "update"])
            /\ UNCHANGED lastResponse
       ELSE Answer(r, ChatStatus(r))
    /\ UNCHANGED <<routeFrame, chats, messageDocs, reqCount>>

\* PUT /api/messages/:id/pin: update({ pinned: pinned === true })
PinRouteUpdate(r) ==
    /\ r \in DOMAIN reqs
    /\ r.op = "PUT /api/messages/:id/pin" /\ r.pc = "update"
    /\ IF DocExists(r.messageId)
       THEN /\ messageDocs' = [messageDocs EXCEPT ![r.messageId].pinned = (r.pinned = TRUE)]
            /\ Answer(r, 200)
       ELSE /\ Answer(r, 500)
            /\ UNCHANGED messageDocs
    /\ UNCHANGED <<routeFrame, chats, reqCount>>

\* PUT /api/messages/:id/read up to the read of the message document:
\* messageData.readBy is the array of that snapshot
ReadRouteBegin(userId, messageId) ==
    AcceptRoute(MaxReqs,
                IF ~DocExists(messageId) THEN 404 ELSE 200,
                RouteRequest("PUT /api/messages/:id/read", userId,
                             IF DocExists(messageId) THEN messageDocs[messageId].chatId
                             ELSE 0,
                             "getChat", messageId, "", "",
                             IF DocExists(messageId) THEN messageDocs[messageId].readBy
                             ELSE <<>>))

\* readBy.push(userId)
ReadByPushed(readBy, userId) == Append(readBy, userId)

\* PUT /api/messages/:id/read: the read of the chat document; a user
\* already in the readBy of the snapshot is answered without a write
ReadRouteGetChat(r) ==
    /\ r \in DOMAIN reqs
    /\ r.op = "PUT /api/messages/:id/read" /\ r.pc = "getChat"
    /\ IF ChatStatus(r) # 200 THEN Answer(r, ChatStatus(r))
       ELSE IF Includes(r.readBy, r.uid) THEN Answer(r, 200)
       ELSE /\ reqs' = Replace(reqs, r, [r EXCEPT !.pc = "update",
                                                  !.readBy = ReadByPushed(@, r.uid)])
            /\ UNCHANGED lastResponse
    /\ UNCHANGED <<routeFrame, chats, messageDocs, reqCount>>

\* PUT /api/messages/:id/read: update({ readBy }) with the array built from
\* the snapshot
ReadRouteUpdate(r) ==
    /\ r \in DOMAIN reqs
    /\ r.op = "PUT /api/messages/:id/read" /\ r.pc = "update"
    /\ IF DocExists(r.messageId)
       THEN /\ messageDocs' = [messageDocs EXCEPT ![r.messageId].readBy = r.readBy]
            /\ Answer(r, 200)
       ELSE /\ Answer(r, 500)
            /\ UNCHANGED messageDocs
    /\ UNCHANGED <<routeFrame, chats, reqCount>>

DocIds == 1..(Len(messageDocs) + 1)

NextRoutes ==
    \/ \E userId \in Users, c \in {0} \union ChatIds, content \in {"", "hi"},
          fileUrl \in {"", "url"} : PostMessageBegin(userId, c, content, fileUrl)
    \/ \E r \in DOMAIN reqs : PostMessageAdd(r)
    \/ \E r \in DOMAIN reqs : PostMessageUpdate(r)
    \/ \E userId \in Users, messageId \in DocIds : ReadRouteBegin(userId, messageId)
    \/ \E r \in DOMAIN reqs : ReadRouteGetChat(r)
    \/ \E r \in DOMAIN reqs : ReadRouteUpdate(r)
    \/ \E userId \in Callers, messageId \in DocIds, body \in PinBodiesRoute :
           PinRouteBegin(userId, messageId, body)
    \/ \E r \in DOMAIN reqs : PinRouteGetChat(r)
    \/ \E r \in DOMAIN reqs : PinRouteUpdate(r)
    \/ \E userId \in Callers, messageId \in DocIds : DeleteRouteBegin(userId, messageId)
    \/ \E r \in DOMAIN reqs : DeleteRouteDelete(r)

SpecRoutes == InitMessages /\ [][NextRoutes]_vars

\* the server handlers that edit and delete messages
NextSender ==
    \/ \E uid \in Callers, c \in ChatIds, messageId \in MessageIds, text \in {"", "hey"} :
           UpdateMessageBegin(uid, c, messageId, text)
    \/ \E r \in DOMAIN reqs : UpdateMessageGet(r)
    \/ \E r \in DOMAIN reqs : UpdateMessageWrite(r)
    \/ \E uid \in Callers, c \in ChatIds, messageId \in MessageIds :
           DeleteMessageBegin(uid, c, messageId)
    \/ \E r \in DOMAIN reqs : DeleteMessageGet(r)
    \/ \E r \in DOMAIN reqs : DeleteMessageDelete(r)
    \/ \E r \in DOMAIN reqs : DeleteMessageQuery(r)
    \/ \E r \in DOMAIN reqs : DeleteMessageRepoint(r)
    \/ \E userId \in Callers, messageId \in DocIds, content \in {"", "hey"} :
           PutMessageBegin(userId, messageId, content)
    \/ \E r \in DOMAIN reqs : PutMessageUpdate(r)
    \/ \E userId \in Callers, messageId \in DocIds : DeleteRouteBegin(userId, messageId)
    \/ \E r \in DOMAIN reqs : DeleteRouteDelete(r)
    \/ \E uid \in Callers, c \in ChatIds, messageId \in MessageIds, body \in PinBodies :
           TogglePinMessageBegin(uid, c, messageId, body)
    \/ \E r \in DOMAIN reqs : TogglePinMessageGet(r)
    \/ \E r \in DOMAIN reqs : TogglePinMessageWrite(r)
    \/ \E userId \in Callers, messageId \in DocIds, body \in PinBodiesRoute :
           PinRouteBegin(userId, messageId, body)
    \/ \E r \in DOMAIN reqs : PinRouteGetChat(r)
    \/ \E r \in DOMAIN reqs : PinRouteUpdate(r)

SpecSender == InitMessages /\ [][NextSender]_vars

\* ------------------------------------------------- routes: members and title
\* (src/server/src/routes/chats.ts)

\* req.body of PUT /api/chats/:id: title and folderName, each present or not
\* ('' stands for an absent or empty title, <<>> for no folderName)
ChatBodies == [title : {"", "t"}, folderName : {<<>>, <<"work">>}]

\* PUT /api/chats/:id up to the read of the chat document
RoutesUpdateChatBegin(userId, c, body) ==
    /\ reqCount < MaxReqs
    /\ reqCount' = reqCount + 1
    /\ LET status == IF AccessStatus(chats[c], userId) # 200
                     THEN AccessStatus(chats[c], userId)
                     ELSE IF body.title # "" /\ chats[c].isGroup
                             /\ chats[c].createdBy # userId
                          THEN 403
                     ELSE 200
       IN IF status = 200
          THEN /\ reqs' = reqs (+) SetToBag({[op |-> "PUT /api/chats/:id", uid |-> userId,
                                              chat |-> c, pc |-> "update",
                                              chatData |-> chats[c], body |-> body]})
               /\ UNCHANGED lastResponse
          ELSE /\ lastResponse' = Response("PUT /api/chats/:id", userId, c, status)
               /\ UNCHANGED reqs
    /\ UNCHANGED <<clientVars, unreadState, chats, chatsCreated>>

\* PUT /api/chats/:id: update(updateData); rejects when the document is
\* gone
RoutesUpdateChatUpdate(r) ==
    /\ r \in DOMAIN reqs
    /\ r.op = "PUT /api/chats/:id"
    /\ IF chats[r.chat].exists
       THEN /\ chats' = [chats EXCEPT
                   ![r.chat].title = IF r.body.title # "" THEN r.body.title ELSE @,
                   ![r.chat].folderName = IF r.body.folderName # <<>>
                                          THEN r.body.folderName[1] ELSE @]
            /\ lastResponse' = Response(r.op, r.uid, r.chat, 200)
       ELSE /\ lastResponse' = Response(r.op, r.uid, r.chat, 500)
            /\ UNCHANGED chats
    /\ reqs' = reqs (-) SetToBag({r})
    /\ UNCHANGED <<clientVars, unreadState, reqCount, chatsCreated>>

\* chat 1 is a group user 1 created with user 2, chat 2 a chat of users 2
\* and 3
InitMembers ==
    /\ fileUploads = <<>>
    /\ updatedUploads = <<>>
    /\ uploadBase = <<>>
    /\ uploadPending = {}
    /\ uploadLoading = FALSE
    /\ outcome = [f \in FileIds |-> "none"]
    /\ nextFile = 1
    /\ fileChat = [f \in FileIds |-> 0]
    /\ removed = {}
    /\ messageText = ""
    /\ isTyping = FALSE
    /\ typingWrites = <<>>
    /\ sending = <<>>
    /\ chatMessages = <<>>
    /\ chatDoc = [lastMessage |-> ""]
    /\ sendCount = 0
    /\ typingPhase = "idle"
    /\ typingDocs = {}
    /\ nextAuto = 1
    /\ typingTimeout = <<>>
    /\ inputCount = 0
    /\ now = 0
    /\ chatId = 1
    /\ chat = <<>>
    /\ messages = <<>>
    /\ typingUsers = {}
    /\ loading = TRUE
    /\ error = ""
    /\ getDocPending = {}
    /\ msgSnapDue = FALSE
    /\ typingSnapDue = FALSE
    /\ typingReqs = 0
    /\ messageDocs = <<>>
    /\ folderChats = <<>>
    /\ activeFolder = ""
    /\ searchTerm = <<>>
    /\ filteredChats = <<>>
    /\ groupedMessages = <<>>
    /\ pinnedMessages = <<>>
    /\ rendered = FALSE
    /\ alerts = <<>>
    /\ chats = [c \in ChatIds |->
                   IF c = 1 THEN [NewChat(<<1, 2>>, TRUE, 1) EXCEPT !.title = "g"]
                   ELSE ForeignChat]
    /\ chatsCreated = 0
    /\ reqs = EmptyBag
    /\ reqCount = 0
    /\ lastResponse = NoResponse
    /\ viewedUpTo = [c \in ChatIds |-> [u \in Users |-> 0]]

NextMembers ==
    \/ \E userId \in Users, c \in ChatIds, members \in MemberLists :
           RoutesAddMembersBegin(userId, c, members)
    \/ \E r \in DOMAIN reqs : RoutesAddMembersUpdate(r)
    \/ \E userId \in Users, c \in ChatIds, body \in ChatBodies :
           RoutesUpdateChatBegin(userId, c, body)
    \/ \E r \in DOMAIN reqs : RoutesUpdateChatUpdate(r)

SpecMembers == InitMembers /\ [][NextMembers]_vars

\* ------------------------------------------------- Folders: filteredChats
\* (src/unnamed/part_007, Folders)

\* Strings are sequences of characters; <<>> is the empty string and
\* stands for an undefined title or lastMessage as well.
LowerChar(ch) == IF ch = "A" THEN "a" ELSE IF ch = "B" THEN "b" ELSE ch

\* String.prototype.toLowerCase
ToLowerCase(string) == [k \in 1..Len(string) |-> LowerChar(string[k])]

\* String.prototype.includes
StringIncludes(string, part) ==
    \E k \in 0..(Len(string) - Len(part)) :
        SubSeq(string, k + 1, k + Len(part)) = part

\* the chats the listener can deliver
FolderChatRecords ==
    [title : {<<>>, <<"A", "b">>}, lastMessage : {<<>>, <<"b">>},
     folderName : {"", "work"}, isEmptyFolder : BOOLEAN]

RECURSIVE ListsOf(_, _)
ListsOf(set, n) ==
    IF n = 0 THEN {<<>>}
    ELSE ListsOf(set, n - 1)
         \union {Append(list, x) : list \in {l \in ListsOf(set, n - 1) : Len(l) = n - 1},
                                   x \in set}

SearchTerms == {<<>>, <<"b">>, <<"A">>, <<"c">>}

FolderMatch(c, folder) == IF folder # "" THEN c.folderName = folder ELSE TRUE

SearchMatch(c, term) ==
    IF term # <<>>
    THEN \/ c.title # <<>> /\ StringIncludes(ToLowerCase(c.title), ToLowerCase(term))
         \/ c.lastMessage # <<>>
            /\ StringIncludes(ToLowerCase(c.lastMessage), ToLowerCase(term))
    ELSE TRUE

\* const hideEmptyFolders = !searchTerm || !chat.isEmptyFolder
HideEmptyFolders(c, term) == term = <<>> \/ ~c.isEmptyFolder

\* chats.filter(chat => folderMatch && searchMatch && hideEmptyFolders)
FilteredChats(list, folder, term) ==
    SelectSeq(list, LAMBDA c : /\ FolderMatch(c, folder)
                               /\ SearchMatch(c, term)
                               /\ HideEmptyFolders(c, term))

\* [...new Set(chats.map(chat => chat.folderName).filter(Boolean))]
Folders(list) == {list[k].folderName : k \in 1..Len(list)} \ {""}

\* every variable the Folders view leaves alone
folderFrame == <<uploadVars, sendVars, typingVars, typingStoreVars, now, chatId,
                 viewVars, typingReqs, messageDocs, chats, serverVars, renderVars>>

\* the chats listener delivers a snapshot: setChats, and the view renders
ChatsSnapshot(chatsList) ==
    /\ folderChats' = chatsList
    /\ filteredChats' = FilteredChats(chatsList, activeFolder, searchTerm)
    /\ UNCHANGED <<folderFrame, activeFolder, searchTerm>>

\* a click on a folder button, or on the button for all chats: '' is null
SetActiveFolder(folder) ==
    /\ folder \in Folders(folderChats) \union {""}
    /\ activeFolder' = folder
    /\ filteredChats' = FilteredChats(folderChats, folder, searchTerm)
    /\ UNCHANGED <<folderFrame, folderChats, searchTerm>>

\* onChange of the search box
SetSearchTerm(value) ==
    /\ searchTerm' = value
    /\ filteredChats' = FilteredChats(folderChats, activeFolder, value)
    /\ UNCHANGED <<folderFrame, folderChats, activeFolder>>

InitFolders ==
    /\ fileUploads = <<>>
    /\ updatedUploads = <<>>
    /\ uploadBase = <<>>
    /\ uploadPending = {}
    /\ uploadLoading = FALSE
    /\ outcome = [f \in FileIds |-> "none"]
    /\ nextFile = 1
    /\ fileChat = [f \in FileIds |-> 0]
    /\ removed = {}
    /\ messageText = ""
    /\ isTyping = FALSE
    /\ typingWrites = <<>>
    /\ sending = <<>>
    /\ chatMessages = <<>>
    /\ chatDoc = [lastMessage |-> ""]
    /\ sendCount = 0
    /\ typingPhase = "idle"
    /\ typingDocs = {}
    /\ nextAuto = 1
    /\ typingTimeout = <<>>
    /\ inputCount = 0
    /\ now = 0
    /\ chatId = 1
    /\ chat = <<>>
    /\ messages = <<>>
    /\ typingUsers = {}
    /\ loading = TRUE
    /\ error = ""
    /\ getDocPending = {}
    /\ msgSnapDue = FALSE
    /\ typingSnapDue = FALSE
    /\ typingReqs = 0
    /\ messageDocs = <<>>
    /\ folderChats = <<>>
    /\ activeFolder = ""
    /\ searchTerm = <<>>
    /\ filteredChats = <<>>
    /\ groupedMessages = <<>>
    /\ pinnedMessages = <<>>
    /\ rendered = FALSE
    /\ alerts = <<>>
    /\ chats = [c \in ChatIds |-> NoChat]
    /\ chatsCreated = 0
    /\ reqs = EmptyBag
    /\ reqCount = 0
    /\ lastResponse = NoResponse
    /\ viewedUpTo = [c \in ChatIds |-> [u \in Users |-> 0]]

NextFolders ==
    \/ \E chatsList \in ListsOf(FolderChatRecords, MaxFolderChats) : ChatsSnapshot(chatsList)
    \/ \E folder \in {"", "work"} : SetActiveFolder(folder)
    \/ \E value \in SearchTerms : SetSearchTerm(value)

SpecFolders == InitFolders /\ [][NextFolders]_vars

\* ------------------------------------------------- authenticate middleware
\* (src/server/src/middlewares/auth.ts)

\* An Authorization header value is a string, written as the sequence of
\* its pieces: the literal 'Bearer ', the same in lower case, the ID token
\* of user 1, the ID token of user 2, and any other text.
Pieces == {"Bearer ", "bearer ", "token1", "token2", "x"}

RECURSIVE Strings(_)
Strings(n) ==
    IF n = 0 THEN {<<>>}
    ELSE Strings(n - 1) \union {Append(h, p) : h \in {g \in Strings(n - 1) : Len(g) = n - 1},
                                                p \in Pieces}

\* req.headers.authorization: undefined when the header is missing
Headers == {[present |-> FALSE, value |-> <<>>]}
           \union {[present |-> TRUE, value |-> h] : h \in Strings(MaxHeader)}

\* String.prototype.startsWith
StartsWith(string, piece) == Len(string) >= 1 /\ string[1] = piece

\* String.prototype.split: the parts of the string between the separators
RECURSIVE Split(_, _)
Split(string, separator) ==
    LET at == {k \in 1..Len(string) : string[k] = separator}
    IN IF at = {} THEN <<string>>
       ELSE LET k == CHOOSE i \in at : \A j \in at : i <= j
            IN <<SubSeq(string, 1, k - 1)>>
               \o Split(SubSeq(string, k + 1, Len(string)), separator)

\* admin.auth().verifyIdToken: the uid of the decoded token, 0 when the
\* token is rejected
DecodedUid(idToken) ==
    IF idToken = <<"token1">> THEN 1
    ELSE IF idToken = <<"token2">> THEN 2
    ELSE 0

AuthRequest(header, idToken, pc, uid) ==
    [op |-> "authenticate", header |-> header, idToken |-> idToken, pc |-> pc,
     uid |-> uid]

\* res.status(status).json({ error })
Unauthorized(message) ==
    [op |-> "authenticate", uid |-> 0, chat |-> 0, status |-> 401, unread |-> <<>>,
     pinnedMessages |-> <<>>, error |-> message]

authFrame == <<clientVars, chats, chatMessages, typingDocs, viewedUpTo, chatsCreated>>

\* authenticate up to the await of verifyIdToken
Authenticate(header) ==
    /\ reqCount < MaxReqs
    /\ reqCount' = reqCount + 1
    /\ IF ~header.present \/ header.value = <<>> \/ ~StartsWith(header.value, "Bearer ")
       THEN /\ lastResponse' = Unauthorized("Unauthorized: Missing or invalid token format")
            /\ UNCHANGED reqs
       ELSE LET idToken == Split(header.value, "Bearer ")[2]
            IN IF idToken = <<>>
               THEN /\ lastResponse' = Unauthorized("Unauthorized: No token provided")
                    /\ UNCHANGED reqs
               ELSE /\ reqs' = reqs (+) SetToBag({AuthRequest(header, idToken, "verify", 0)})
                    /\ UNCHANGED lastResponse
    /\ UNCHANGED authFrame

\* verifyIdToken resolved: req.user is set and next() invokes the handler
VerifyIdTokenOk(r) ==
    /\ r \in DOMAIN reqs
    /\ r.op = "authenticate" /\ r.pc = "verify"
    /\ DecodedUid(r.idToken) # 0
    /\ reqs' = Replace(reqs, r, [r EXCEPT !.pc = "handler", !.uid = DecodedUid(r.idToken)])
    /\ UNCHANGED <<authFrame, reqCount, lastResponse>>

\* verifyIdToken rejected (a token of no user, or one expired or revoked):
\* 401
VerifyIdTokenRejected(r) ==
    /\ r \in DOMAIN reqs
    /\ r.op = "authenticate" /\ r.pc = "verify"
    /\ reqs' = reqs (-) SetToBag({r})
    /\ lastResponse' = Unauthorized("Unauthorized: Invalid token")
    /\ UNCHANGED <<authFrame, reqCount>>

\* the handler of the protected route answers for req.user.uid
Handler(r) ==
    /\ r \in DOMAIN reqs
    /\ r.op = "authenticate" /\ r.pc = "handler"
    /\ reqs' = reqs (-) SetToBag({r})
    /\ lastResponse' = Response("handler", r.uid, 0, 200)
    /\ UNCHANGED <<authFrame, reqCount>>

InitAuth == InitChats

NextAuth ==
    \/ \E header \in Headers : Authenticate(header)
    \/ \E r \in DOMAIN reqs : VerifyIdTokenOk(r)
    \/ \E r \in DOMAIN reqs : VerifyIdTokenRejected(r)
    \/ \E r \in DOMAIN reqs : Handler(r)

SpecAuth == InitAuth /\ [][NextAuth]_vars

\* ------------------------------------------------------------------ claims

\* C1: every file attachment of a message written by handleSendMessage
\* belongs to an upload that settled as Succeeded; an upload in flight or
\* failed is never in a message's files list.
C1_SentFilesSucceeded ==
    \A m \in 1..Len(chatMessages) : \A k \in 1..Len(chatMessages[m].files) :
        LET a == chatMessages[m].files[k]
        IN a.name \in FileIds /\ outcome[a.name] = "ok" /\ a.id # 0 /\ a.url # 0

\* a message was written with an attachment while another selected upload failed
C1_Witness ==
    /\ \E m \in 1..Len(chatMessages) : Len(chatMessages[m].files) >= 1
    /\ \E f \in FileIds : outcome[f] = "failed" /\ f \notin removed

\* C2: once removed with removeFileUpload, an attachment is absent from
\* fileUploads in every later state and from every message sent afterwards.
C2_RemovedStaysAbsent ==
    \A k \in 1..Len(fileUploads) : fileUploads[k].file \notin removed

\* C5: after a user who started typing sends the message or empties the
\* input, and the queued typing writes have completed, the typing collection
\* of the chat holds no document whose userId is that user.
C5_TypingDocDeleted ==
    (typingPhase = "stopped" /\ typingWrites = <<>>)
        => \A d \in typingDocs : ~(d.chat = chatId /\ d.userId = Me)

\* C3: while the active chat is c, the loaded chat document and every entry
\* of messages and typingUsers originate from c (or are not yet loaded).
C3_NoLeakAcrossChats ==
    /\ chat = <<>> \/ chat[1].id = chatId
    /\ \A k \in 1..Len(messages) : messages[k].chat = chatId
    /\ \A t \in typingUsers : t.chat = chatId

\* C4: at every time the typing set is displayed, no indicator in
\* typingUsers has an age of 10 seconds or more.
C4_TypingUsersFresh ==
    \A t \in typingUsers : now - t.timestamp < StaleTicks

\* messages of chat c by someone other than uid, created since uid's last view
SentSinceView(c, uid) ==
    Cardinality({k \in 1..Len(chatMessages) :
                    /\ k > viewedUpTo[c][uid]
                    /\ chatMessages[k].chat = c
                    /\ chatMessages[k].senderId # uid})

\* C6: once no send or view is in flight, the stored unread counter of
\* every member equals the number of messages other members sent since that
\* member last viewed the chat.
C6_UnreadCountsExact ==
    reqs = EmptyBag =>
        \A c \in ChatIds : chats[c].exists =>
            \A uid \in Range(chats[c].members) :
                UnreadOrZero(chats[c].unreadCounts, uid) = SentSinceView(c, uid)

C7_NonNegative ==
    \A c \in ChatIds : \A uid \in DOMAIN chats[c].unreadCounts :
        chats[c].unreadCounts[uid] >= 0

C7_ViewResets ==
    \A r \in DOMAIN reqs :
        (/\ r.op \in {"getChatMessages", "getChatById"}
         /\ reqs' = reqs (-) SetToBag({r})
         /\ lastResponse'.status = 200)
        => /\ r.uid \in DOMAIN chats'[r.chat].unreadCounts
           /\ chats'[r.chat].unreadCounts[r.uid] = 0

C7_ReportsStored ==
    (reqCount' # reqCount /\ reqs' = reqs /\ lastResponse'.op = "getUserChats")
    => \A c \in DOMAIN lastResponse'.unread :
           LET uid == lastResponse'.uid
           IN /\ lastResponse'.unread[c] >= 0
              /\ uid \notin DOMAIN chats[c].unreadCounts => lastResponse'.unread[c] = 0
              /\ uid \in DOMAIN chats[c].unreadCounts
                     => lastResponse'.unread[c] = chats[c].unreadCounts[uid]

\* C7: no stored unread counter is ever negative; the step that completes
\* a member's getChatMessages or getChatById leaves that member's counter at
\* exactly 0 whatever it was before; getUserChats reports the stored counter
\* and 0 for a member without one.
C7_UnreadNeverNegative ==
    /\ []C7_NonNegative
    /\ [][C7_ViewResets]_vars
    /\ [][C7_ReportsStored]_vars

\* a member's view has just reset a counter that a send by another member
\* had raised
C7_Witness ==
    /\ lastResponse.op \in {"getChatMessages", "getChatById"}
    /\ lastResponse.status = 200
    /\ LET c == lastResponse.chat
           uid == lastResponse.uid
       IN /\ chats[c].lastMessageId # 0
          /\ chatMessages[chats[c].lastMessageId].senderId # uid
          /\ UnreadOrZero(chats[c].unreadCounts, uid) = 0

\* C8: a step that creates a non-group chat of two members is taken only
\* when no non-group chat with the same member set exists, whatever the
\* order of the ids and whichever creation path is used.
C8_DirectChatDeduplicated ==
    [][\A c \in ChatIds :
          (/\ ~chats[c].exists /\ chats'[c].exists
           /\ ~chats'[c].isGroup
           /\ Cardinality(Range(chats'[c].members)) = 2)
          => ~\E d \in ChatIds : /\ chats[d].exists
                                 /\ ~chats[d].isGroup
                                 /\ Range(chats[d].members) = Range(chats'[c].members)]_vars

\* C9: every existing chat with isGroup = false has exactly two members.
C9_DirectChatHasTwoMembers ==
    \A c \in ChatIds :
        (chats[c].exists /\ ~chats[c].isGroup) => Len(chats[c].members) = 2

\* C10: the members list of every existing chat contains its createdBy.
C10_CreatorIsMember ==
    \A c \in ChatIds :
        chats[c].exists => Includes(chats[c].members, chats[c].createdBy)

RECURSIVE Flatten(_)
Flatten(groups) ==
    IF groups = <<>> THEN <<>>
    ELSE Flatten(SubSeq(groups, 1, Len(groups) - 1)) \o groups[Len(groups)]

\* the positions of the messages list at which a group of groupedMessages starts
GroupStarts ==
    {Len(Flatten(SubSeq(groupedMessages, 1, g - 1))) + 1 : g \in 2..Len(groupedMessages)}

DayOf(message) ==
    IF message.timestamp = Pending THEN NoDate ELSE message.timestamp \div DayUnits

ScenarioMessages ==
    <<[senderId |-> 1, timestamp |-> 1200, isPinned |-> FALSE],
      [senderId |-> 1, timestamp |-> 1201, isPinned |-> FALSE],
      [senderId |-> 2, timestamp |-> 1202, isPinned |-> FALSE],
      [senderId |-> 1, timestamp |-> 1220, isPinned |-> FALSE]>>

\* C11: after a render, a group starts at position k of the list exactly
\* when message k differs from message k-1 in sender or in local calendar
\* day, or is timestamped more than 5 minutes after it (exactly 5 minutes
\* does not split); the list [A@10:00:00, A@10:00:30, B@10:01:00,
\* A@10:10:00] yields the groups [A,A], [B], [A].
C11_GroupBoundaries ==
    rendered =>
        /\ \A k \in 2..Len(messages) :
               k \in GroupStarts <=>
                   \/ messages[k].senderId # messages[k - 1].senderId
                   \/ DayOf(messages[k]) # DayOf(messages[k - 1])
                   \/ /\ messages[k].timestamp # Pending
                      /\ messages[k - 1].timestamp # Pending
                      /\ messages[k].timestamp - messages[k - 1].timestamp > GroupGapUnits
        /\ messages = ScenarioMessages =>
               groupedMessages = <<SubSeq(messages, 1, 2), SubSeq(messages, 3, 3),
                                   SubSeq(messages, 4, 4)>>

\* the scenario list was rendered into three groups
C11_Witness ==
    rendered /\ messages = ScenarioMessages /\ Len(groupedMessages) = 3

\* C12: after a render, running the grouping again on the same list gives
\* the same groups, no group is empty, and the groups concatenated in
\* order are exactly the list, pending timestamps included.
C12_GroupingLossless ==
    rendered =>
        /\ GroupMessages(messages) = groupedMessages
        /\ GroupMessages(Flatten(groupedMessages)) = groupedMessages
        /\ \A g \in 1..Len(groupedMessages) : Len(groupedMessages[g]) > 0
        /\ Flatten(groupedMessages) = messages

\* a list with a pending message was rendered into several groups
C12_Witness ==
    /\ rendered
    /\ Len(groupedMessages) >= 2
    /\ \E k \in 1..Len(messages) : messages[k].timestamp = Pending

\* C13: the step in which a write of handleSendMessage fails shows the
\* alert and leaves messageText and fileUploads as they were; a send
\* clears them only in the step in which its second write, the update of
\* the chat document, succeeds after its message document was created.
C13_FailedSendPreserved ==
    [][/\ Len(sending') < Len(sending) =>
              \/ /\ alerts' = Append(alerts, "Failed to send message. Please try again.")
                 /\ messageText' = messageText
                 /\ fileUploads' = fileUploads
              \/ /\ alerts' = alerts
                 /\ messageText' = ""
                 /\ fileUploads' = <<>>
                 /\ \E k \in 1..Len(sending) :
                        /\ sending[k].pc = "updateDoc"
                        /\ sending' = Splice(sending, k)
                        /\ \E m \in 1..Len(chatMessages) :
                               /\ chatMessages[m].text = sending[k].text
                               /\ chatMessages[m].files = sending[k].files
       /\ (messageText # "" /\ messageText' = "") => Len(sending') < Len(sending)
       /\ alerts' # alerts => Len(sending') < Len(sending)]_vars

\* the only send created its message, failed to update the chat document,
\* and the text and the attachments are still composed
C13_Witness ==
    /\ sendCount = 1 /\ sending = <<>>
    /\ Len(alerts) = 1
    /\ Len(chatMessages) = 1
    /\ Trim(messageText) # ""
    /\ Len(fileUploads) >= 1

\* the state of a pending attachment
UploadState(u) ==
    IF u.progress = 0 /\ u.id = 0 /\ u.url = 0 THEN "Uploading"
    ELSE IF u.progress = 100 /\ u.id # 0 /\ u.url # 0 THEN "Succeeded"
    ELSE IF u.progress = -1 /\ u.id = 0 /\ u.url = 0 THEN "Failed"
    ELSE "none"

C14_ValidStates ==
    \A k \in 1..Len(fileUploads) :
        UploadState(fileUploads[k]) \in {"Uploading", "Succeeded", "Failed"}

\* the files whose entry differs between the pending list before and after a step
C14_Changed ==
    {f \in FileIds : \E i \in 1..Len(fileUploads), j \in 1..Len(fileUploads') :
        /\ fileUploads[i].file = f /\ fileUploads'[j].file = f
        /\ fileUploads[i] # fileUploads'[j]}

C14_Step ==
    /\ Cardinality(C14_Changed) <= 1
    /\ \A i \in 1..Len(fileUploads), j \in 1..Len(fileUploads') :
           (fileUploads[i].file = fileUploads'[j].file
            /\ fileUploads[i] # fileUploads'[j])
           => /\ UploadState(fileUploads[i]) = "Uploading"
              /\ outcome[fileUploads[i].file] = "inflight"
              /\ \/ /\ UploadState(fileUploads'[j]) = "Succeeded"
                    /\ outcome'[fileUploads[i].file] = "ok"
                 \/ /\ UploadState(fileUploads'[j]) = "Failed"
                    /\ outcome'[fileUploads[i].file] = "failed"

\* C14: every pending attachment is Uploading (progress 0, no id),
\* Succeeded (progress 100, id and url set) or Failed (progress -1); in a
\* step an attachment that stays in the list either keeps its entry or goes
\* from Uploading to Succeeded or Failed because its own upload settled, at
\* most one attachment changes per step, and a Succeeded or Failed entry
\* never changes, in whatever order the uploads of a batch settle.
C14_UploadStateMachine ==
    []C14_ValidStates /\ [][C14_Step]_vars

\* the second upload of a batch has succeeded while the first is in flight
C14_Witness ==
    /\ uploadLoading /\ uploadPending = {1}
    /\ Len(fileUploads) = 2
    /\ UploadState(fileUploads[1]) = "Uploading"
    /\ UploadState(fileUploads[2]) = "Succeeded"

\* C15: once no request is in flight, the last-message pointer of a chat
\* names an existing message of the chat, the newest one, or no message
\* when none remain.
C15_LastMessageExists ==
    reqs = EmptyBag
    => \A c \in ChatIds :
           chats[c].exists => chats[c].lastMessageId = NewestMessage(c)

\* a list of messages runs from the newest to the oldest
RECURSIVE Descending(_)
Descending(list) ==
    \/ Len(list) < 2
    \/ /\ list[1].timestamp >= list[2].timestamp
       /\ Descending(Tail(list))

\* C16: the pinned messages shown are the messages of the list with
\* isPinned true, newest first, in the Chat view and in the answer of
\* getPinnedMessages.
C16_PinnedNewestFirst ==
    /\ rendered
        => /\ Descending(pinnedMessages)
           /\ \A k \in 1..Len(messages) :
                  messages[k].isPinned <=> Includes(pinnedMessages, messages[k])
           /\ \A k \in 1..Len(pinnedMessages) : Includes(messages, pinnedMessages[k])
    /\ lastResponse.op = "getPinnedMessages"
        => /\ Descending(lastResponse.pinnedMessages)
           /\ \A k \in 1..Len(lastResponse.pinnedMessages) :
                  lastResponse.pinnedMessages[k].isPinned

\* the fields of a message no edit and no pin toggle writes
Identity(message) == <<message.chat, message.id, message.senderId, message.timestamp,
                       message.files, message.deleted>>

C17_Frame ==
    \A k \in 1..Len(chatMessages) :
        LET before == chatMessages[k]
            after == chatMessages'[k]
        IN /\ Len(chatMessages') = Len(chatMessages)
           /\ ~after.deleted
               => /\ Identity(after) = Identity(before)
                  /\ after.isPinned # before.isPinned
                      => after.text = before.text /\ after.isEdited = before.isEdited
                  /\ (after.text # before.text \/ after.isEdited # before.isEdited)
                      => after.isEdited /\ after.isPinned = before.isPinned

\* C17: an edit changes the text and sets isEdited and leaves isPinned
\* alone, a pin toggle changes isPinned and leaves text and isEdited alone,
\* and neither changes the sender, the timestamp or the files of a message.
C17_EditAndPinIndependent == [][C17_Frame]_vars

\* a message both pinned and edited, next to one neither pinned nor edited
C17_Witness ==
    /\ \E k \in 1..Len(chatMessages) :
           chatMessages[k].isPinned /\ chatMessages[k].isEdited
    /\ \E k \in 1..Len(chatMessages) :
           ~chatMessages[k].isPinned /\ ~chatMessages[k].isEdited

\* C18: the sender of a message the send operation creates is a member of
\* the chat when the message is created.
C18_SenderIsMember ==
    [][Len(chatMessages') > Len(chatMessages)
       => LET message == chatMessages'[Len(chatMessages')]
          IN /\ chats[message.chat].exists
             /\ Includes(chats[message.chat].members, message.senderId)]_vars

\* the step completes a leaveChat request
LeaveCompleted ==
    /\ lastResponse'.op = "leaveChat"
    /\ lastResponse'.status = 200
    /\ BagCardinality(reqs') < BagCardinality(reqs)

\* C19: leaveChat deletes the chat exactly when removing the caller leaves
\* no member, removes only the caller otherwise, and no other operation
\* deletes a chat.
C19_DeletedWhenLastMemberLeaves ==
    [][\A c \in ChatIds :
           /\ chats[c].exists /\ ~chats'[c].exists
               => LeaveCompleted /\ lastResponse'.chat = c
           /\ LeaveCompleted /\ lastResponse'.chat = c /\ chats[c].exists
               => IF Without(chats[c].members, lastResponse'.uid) = <<>>
                  THEN ~chats'[c].exists
                  ELSE /\ chats'[c].exists
                       /\ chats'[c].members = Without(chats[c].members, lastResponse'.uid)]_vars

\* C20: the handler of a protected route runs only for a header of the
\* form 'Bearer <token>' whose token verifyIdToken accepts, with
\* req.user.uid the uid of that token.
C20_HandlerAfterVerifiedToken ==
    \A r \in DOMAIN reqs :
        r.op = "authenticate" /\ r.pc = "handler"
        => /\ r.header.present
           /\ StartsWith(r.header.value, "Bearer ")
           /\ DecodedUid(Tail(r.header.value)) # 0
           /\ r.uid = DecodedUid(Tail(r.header.value))

\* the operations of the server that edit or delete a message
SenderOps == {"updateMessage", "deleteMessage"}
SenderRoutes == {"PUT /api/messages/:id", "DELETE /api/messages/:id"}

\* a request that is past the sender check was made by the sender
C21_PastCheckIsSender ==
    \A r \in DOMAIN reqs :
        /\ r.op \in SenderOps /\ r.pc \in {"update", "delete"}
            => chatMessages[r.messageId].senderId = r.uid
        /\ r.op \in SenderRoutes
            => messageDocs[r.messageId].senderId = r.uid

\* a change of the text or a removal is the step of a request of the
\* sender, and a request answered 403 changes nothing
C21_Step ==
    /\ \A k \in 1..Len(chatMessages) :
           (chatMessages'[k].text # chatMessages[k].text
            \/ chatMessages'[k].deleted # chatMessages[k].deleted)
           => \E r \in DOMAIN reqs :
                  /\ r.op \in SenderOps /\ r.messageId = k
                  /\ r.uid = chatMessages[k].senderId
                  /\ reqs' = reqs (-) SetToBag({r})
                     \/ \E next \in DOMAIN reqs' : reqs' = Replace(reqs, r, next)
    /\ \A k \in 1..Len(messageDocs) :
           (messageDocs'[k].content # messageDocs[k].content
            \/ messageDocs'[k].deleted # messageDocs[k].deleted)
           => \E r \in DOMAIN reqs :
                  /\ r.op \in SenderRoutes /\ r.messageId = k
                  /\ r.uid = messageDocs[k].senderId
                  /\ reqs' = reqs (-) SetToBag({r})
    /\ \A r \in DOMAIN reqs :
           /\ r.op \in SenderOps /\ r.pc = "getMessage"
           /\ MessageExists(r.chat, r.messageId)
           /\ chatMessages[r.messageId].senderId # r.uid
           /\ reqs' = reqs (-) SetToBag({r})
           => lastResponse'.status = 403
    /\ lastResponse' # lastResponse /\ lastResponse'.status = 403
       => /\ chatMessages' = chatMessages
          /\ messageDocs' = messageDocs
          /\ chats' = chats

\* C21: through the server only the sender of a message changes its text
\* or removes it; the request of another user is answered 403 and changes
\* neither the message nor the chat.
C21_OnlySenderEditsOrDeletes == []C21_PastCheckIsSender /\ [][C21_Step]_vars

\* a member of chat 1 who did not send the message was answered 403
C21_Witness ==
    /\ lastResponse.op \in SenderOps \union SenderRoutes
    /\ lastResponse.status = 403
    /\ Includes(chats[1].members, lastResponse.uid)

\* the step is the callback of the inactivity timer: the timer was due and
\* is gone without an input event or a send
TimerFired ==
    /\ typingTimeout # <<>>
    /\ typingTimeout' = <<>>
    /\ now >= typingTimeout[1].deadline
    /\ inputCount' = inputCount
    /\ sendCount' = sendCount

\* C22: when the inactivity timer fires, 5 seconds after the last input
\* event, the user is no longer marked as typing; at most one timer is
\* pending.
C22_IdleClearsTyping ==
    [][/\ Len(typingTimeout') <= 1
       /\ TimerFired => ~isTyping']_vars

\* C23: the readBy list of a message only grows and has no duplicates, so
\* a user whose mark-read request succeeded stays in it.
C23_ReadByOnlyGrows ==
    [][\A k \in 1..Len(messageDocs) :
           /\ \A u \in Range(messageDocs[k].readBy) : Includes(messageDocs'[k].readBy, u)
           /\ Cardinality(Range(messageDocs'[k].readBy)) = Len(messageDocs'[k].readBy)
           /\ Includes(messageDocs'[k].readBy, messageDocs'[k].senderId)]_vars

\* C24: members and title of a group change only by a request of its
\* creator, a request answered 403 changes nothing, and an accepted
\* add-members request keeps every old member and adds no duplicate.
C24_OnlyCreatorChangesGroup ==
    [][\A c \in ChatIds :
           /\ chats[c].exists /\ chats[c].isGroup
               /\ (chats'[c].members # chats[c].members \/ chats'[c].title # chats[c].title)
               => lastResponse'.uid = chats[c].createdBy
           /\ lastResponse' # lastResponse /\ lastResponse'.status = 403
               => chats' = chats
           /\ chats[c].exists /\ chats'[c].members # chats[c].members
               => /\ Range(chats[c].members) \subseteq Range(chats'[c].members)
                  /\ Cardinality(Range(chats'[c].members)) = Len(chats'[c].members)]_vars

\* C25: every message created has a non-empty text or at least one file.
C25_MessageHasContent ==
    /\ \A k \in 1..Len(chatMessages) :
           chatMessages[k].text # "" \/ chatMessages[k].files # <<>>
    /\ \A k \in 1..Len(messageDocs) :
           messageDocs[k].content # "" \/ messageDocs[k].fileUrl # ""

\* C26: with an empty search term no placeholder chat is in filteredChats,
\* with a search term a placeholder that matches folder and search is in
\* it, and a chat without the flag is in it exactly when it matches.
C26_PlaceholdersHiddenUnlessSearching ==
    \A k \in 1..Len(folderChats) :
        LET c == folderChats[k]
            matches == FolderMatch(c, activeFolder) /\ SearchMatch(c, searchTerm)
        IN IF c.isEmptyFolder
           THEN IF searchTerm = <<>> THEN ~Includes(filteredChats, c)
                ELSE matches => Includes(filteredChats, c)
           ELSE matches <=> Includes(filteredChats, c)

\* C27: every file of a message document of chat C was given to uploadFile
\* by a handleFileChange that ran while C was the view's chatId.
C27_AttachmentsStayInChat ==
    \A k \in 1..Len(chatMessages) :
        \A j \in 1..Len(chatMessages[k].files) :
            fileChat[chatMessages[k].files[j].name] = chatMessages[k].chat

\* the sendMessage requests still in flight
SendsInFlight == {r \in DOMAIN reqs : r.op = "sendMessage"}

\* the messages of chat c were sent by different members
DifferentSenders(c) ==
    \A j, k \in 1..Len(chatMessages) :
        (j # k /\ chatMessages[j].chat = c /\ chatMessages[k].chat = c)
        => chatMessages[j].senderId # chatMessages[k].senderId

\* C28: once every sendMessage has completed, the lastMessageId of a chat
\* whose messages were sent by different members names the message with the
\* greatest timestamp in the chat.
C28_LastMessageIsNewestAfterSends ==
    SendsInFlight = {}
    => \A c \in ChatIds :
           (chats[c].exists /\ NewestMessage(c) # 0 /\ DifferentSenders(c))
           => chats[c].lastMessageId = NewestMessage(c)

====
